---- MODULE Spec2Model ----
(***************************************************************************)
(* State-machine model of the murmduke3d sound driver (src/src/            *)
(* i_picosound.c): the voice pool, the refill/decompression step, the      *)
(* mixer, the deferred callback queue and the public play/stop interface.  *)
(* Both driver revisions contained in i_picosound.c are modelled; the      *)
(* variable rev says which one a behaviour runs.  The pool size            *)
(* NUM_SOUND_CHANNELS comes from i_picosound.h and is fixed per build, so  *)
(* it is chosen by the initial state and never changes.                    *)
(***************************************************************************)
EXTENDS Integers, Sequences, FiniteSets, TLC

VARIABLES
    rev,                    \* driver revision of this build (1 or 2)
    NUM_SOUND_CHANNELS,     \* size of the voice pool of this build (i_picosound.h)
    sound_initialized,      \* static bool sound_initialized
    voices,                 \* static voice_t voices[NUM_SOUND_CHANNELS]
    next_handle,            \* static int next_handle
    pending_callbacks,      \* ring buffer pending_callbacks[32]
    pending_callback_head,  \* consumer index
    pending_callback_tail,  \* producer index
    processing_callbacks,   \* re-entrancy guard of process_pending_callbacks
    sound_callback,         \* TRUE iff a completion callback is registered
    pc,                     \* "main", or "callback" while game code runs inside
                            \* sound_callback called from the outer drain
    processed,              \* the outer drain's local counter `processed`
    cb_val,                 \* argument of the callback that is running (0: none)
    master_volume,          \* static int master_volume
    reverse_stereo,         \* static bool reverse_stereo
    samples,                \* contents of the audio buffer given back last
    max_sample_count,       \* frames per buffer of the producer pool
    occupant,               \* history: handle returned by the last play into a slot
    emitted,                \* history: samples a voice has mixed since its play, while not looping
    sounds,                 \* history: the sounds played so far, in order, as they were
                            \* started, how each ended and whether its token was
                            \* stored in the queue then
    invoked,                \* history: the tokens sound_callback has been called with, in order
    log,                    \* history: what the last operation did, in order
    ctx,                    \* the registers of a queue_callback and a drain that run in
                            \* two contexts, and where each of them stands
    \* the statics of i_music.c
    music_initialized,      \* static bool music_initialized
    opl_emu,                \* static OPL *opl_emu: the emulator, or NULL
    music_playing,          \* static bool music_playing
    music_paused,           \* static bool music_paused
    music_looping,          \* static bool music_looping
    current_midi,           \* the song loaded (its number), or NULL
    num_tracks,             \* static unsigned int num_tracks
    running_tracks,         \* static unsigned int running_tracks
    track_iters,            \* per track the number of events read so far, or NULL
    track_next_event_us,    \* per track the time of its next event
    current_time_us,        \* the virtual clock of the song
    us_per_beat,            \* static unsigned int us_per_beat
    ticks_per_beat,         \* static unsigned int ticks_per_beat
    opl_voices,             \* static opl_voice_t voices[OPL_NUM_VOICES]
    midi_channels,          \* static midi_channel_t channels[16]
    timbre_loaded,          \* static bool timbre_loaded
    music_generator,        \* the function registered as the mixer's music_generator
    music_buffer,           \* history: the frames the last MusicGenerator call wrote
    music_log               \* history: what the last call into i_music.c did, in order

\* the statics of i_music.c and their history
Music == << music_initialized, opl_emu, music_playing, music_paused, music_looping,
            current_midi, num_tracks, running_tracks, track_iters, track_next_event_us,
            current_time_us, us_per_beat, ticks_per_beat, opl_voices, midi_channels,
            timbre_loaded, music_generator, music_buffer, music_log >>

vars == << rev, NUM_SOUND_CHANNELS, sound_initialized, voices, next_handle, pending_callbacks,
           pending_callback_head, pending_callback_tail, processing_callbacks,
           sound_callback, pc, processed, cb_val, master_volume, reverse_stereo,
           samples, max_sample_count, occupant, emitted, sounds, invoked, log, ctx, Music >>

(***************************************************************************)
(* Program constants                                                       *)
(***************************************************************************)
VOICE_BUFFER_SAMPLES == 256
MAX_PENDING_CALLBACKS == 32
PICO_SOUND_SAMPLE_FREQ == 22050
MAX_DECOMPRESS_CALLS == 20
MAX_CALLBACKS_PER_DRAIN == 8
MAX_BUFFERS_PER_UPDATE == 10
HANDLE_WRAP == 10000
NULL == 0 - 1

Slots == 0 .. (NUM_SOUND_CHANNELS - 1)

(***************************************************************************)
(* C arithmetic                                                            *)
(***************************************************************************)
\* C's `/` on ints: truncation toward zero (b > 0)
TruncDiv(a, b) == IF a >= 0 THEN a \div b ELSE 0 - ((0 - a) \div b)

\* uint32_t values are kept as << high 16 bits, low 16 bits >>, so that
\* 16.16 positions keep their full width (TLC integers are 32-bit signed).
U32(hi, lo) == << hi % 65536, lo % 65536 >>
Hi16(x) == x[1]
U32Add(x, y) ==
    LET lo == x[2] + y[2]
    IN  << (x[1] + y[1] + (lo \div 65536)) % 65536, lo % 65536 >>
\* x - n*65536 (mod 2^32)
U32SubHi(x, n) == << (x[1] - n) % 65536, x[2] >>
\* x >= n*65536
U32GeHi(x, n) == x[1] >= n

clamp_s16(v) == IF v > 32767 THEN 32767 ELSE IF v < 0 - 32768 THEN 0 - 32768 ELSE v

\* (int8_t)(u - 128) for u in 0..255
\* a conversion that leaves the unsigned value as it is
U8ToS8Kept(u) == u
U8ToS8(u) == u - 128
\* the int16_t stored little-endian in bytes lo, hi
S16LE(lo, hi) == LET u == lo + 256 * hi IN IF u >= 32768 THEN u - 65536 ELSE u
\* the int8_t stored in byte b
S8(b) == IF b >= 128 THEN b - 256 ELSE b

(***************************************************************************)
(* Creative ADPCM decoders                                                 *)
(***************************************************************************)
\* first revision: DOSBox tables, indexed from 0 in the source
adpcm4_scale_map ==
    <<  0,  1,  2,  3,  4,  5,  6,  7,  0,  -1,  -2,  -3,  -4,  -5,  -6,  -7,
        1,  3,  5,  7,  9, 11, 13, 15, -1,  -3,  -5,  -7,  -9, -11, -13, -15,
        2,  6, 10, 14, 18, 22, 26, 30, -2,  -6, -10, -14, -18, -22, -26, -30,
        4, 12, 20, 28, 36, 44, 52, 60, -4, -12, -20, -28, -36, -44, -52, -60 >>

adpcm4_adjust_map ==
    <<   0,  0,  0,  0,  0, 16, 16, 16,
         0,  0,  0,  0,  0, 16, 16, 16,
       -16,  0,  0,  0,  0, 16, 16, 16,
       -16,  0,  0,  0,  0, 16, 16, 16,
       -16,  0,  0,  0,  0, 16, 16, 16,
       -16,  0,  0,  0,  0, 16, 16, 16,
       -16,  0,  0,  0,  0,  0,  0,  0,
       -16,  0,  0,  0,  0,  0,  0,  0 >>

\* decode_creative_adpcm_nibble that lets the reference sample leave 0..255
decode_creative_adpcm_unclamped(nibble, reference, stepsize) ==
    LET i0 == nibble + stepsize
        i  == IF i0 < 0 THEN 0 ELSE IF i0 > 63 THEN 63 ELSE i0
        s0 == stepsize + adpcm4_adjust_map[i + 1]
        s  == IF s0 < 0 THEN 0 ELSE IF s0 > 48 THEN 48 ELSE s0
    IN  << reference + adpcm4_scale_map[i + 1], s >>

\* decode_creative_adpcm_nibble: the new << reference, stepsize >>
decode_creative_adpcm_nibble(nibble, reference, stepsize) ==
    LET i0 == nibble + stepsize
        i  == IF i0 < 0 THEN 0 ELSE IF i0 > 63 THEN 63 ELSE i0
        s0 == stepsize + adpcm4_adjust_map[i + 1]
        s  == IF s0 < 0 THEN 0 ELSE IF s0 > 48 THEN 48 ELSE s0
        r0 == reference + adpcm4_scale_map[i + 1]
        r  == IF r0 < 0 THEN 0 ELSE IF r0 > 255 THEN 255 ELSE r0
    IN  << r, s >>

\* second revision: IMA-style tables
adpcm_index_table == << -1, -1, -1, -1, 2, 4, 6, 8 >>

adpcm_step_table ==
    << 7, 8, 9, 10, 11, 12, 13, 14, 16, 17,
       19, 21, 23, 25, 28, 31, 34, 37, 41, 45,
       50, 55, 60, 66, 73, 80, 88, 97, 107, 118,
       130, 143, 157, 173, 190, 209, 230, 253, 279, 307,
       337, 371, 408, 449, 494, 544, 598, 658, 724, 796,
       876, 963, 1060, 1166, 1282, 1411, 1552, 1707, 1878, 2066,
       2272, 2499, 2749, 3024, 3327, 3660, 4026, 4428, 4871, 5358,
       5894, 6484, 7132, 7845, 8630, 9493, 10442, 11487, 12635, 13899,
       15289, 16818, 18500, 20350, 22385, 24623, 27086, 29794, 32767 >>

\* decode_adpcm_nibble without the upper limit of the step index
decode_adpcm_nibble_unlimited(nibble, pred, index) ==
    LET step == adpcm_step_table[index + 1]
        d0 == (step \div 8)
              + (IF nibble % 2 = 1 THEN step \div 4 ELSE 0)
              + (IF (nibble \div 2) % 2 = 1 THEN step \div 2 ELSE 0)
              + (IF (nibble \div 4) % 2 = 1 THEN step ELSE 0)
        diff == IF nibble >= 8 THEN 0 - d0 ELSE d0
        p  == clamp_s16(pred + diff)
        i0 == index + adpcm_index_table[(nibble % 8) + 1]
        i  == IF i0 < 0 THEN 0 ELSE i0
    IN  << p, i >>

\* decode_adpcm_nibble: the new << pred, index >>
decode_adpcm_nibble(nibble, pred, index) ==
    LET step == adpcm_step_table[index + 1]
        d0 == (step \div 8)
              + (IF nibble % 2 = 1 THEN step \div 4 ELSE 0)
              + (IF (nibble \div 2) % 2 = 1 THEN step \div 2 ELSE 0)
              + (IF (nibble \div 4) % 2 = 1 THEN step ELSE 0)
        diff == IF nibble >= 8 THEN 0 - d0 ELSE d0
        p  == clamp_s16(pred + diff)
        i0 == index + adpcm_index_table[(nibble % 8) + 1]
        i  == IF i0 < 0 THEN 0 ELSE IF i0 > 88 THEN 88 ELSE i0
    IN  << p, i >>

(***************************************************************************)
(* Sound data in memory.  A pointer of a voice is an offset into the       *)
(* block Mem[v.mem]; NULL is the null pointer.                             *)
(***************************************************************************)
Pattern(n) == [i \in 1 .. n |-> (i * 53 + 7) % 256]

LE16(x) == << x % 256, (x \div 256) % 256 >>
LE32(x) == << x % 256, (x \div 256) % 256, (x \div 65536) % 256, (x \div 16777216) % 256 >>
LE24(x) == << x % 256, (x \div 256) % 256, (x \div 65536) % 256 >>

\* "Creative Voice File\x1a"
VocMagic == << 67, 114, 101, 97, 116, 105, 118, 101, 32, 86, 111, 105, 99, 101,
               32, 70, 105, 108, 101, 26 >>
VocHeader == VocMagic \o LE16(26) \o << 10, 1, 41, 17 >>
\* a VOC file with one block of type 1 (freq_div, codec, samples) and a terminator
VocType1(freq_div, codec, payload) ==
    VocHeader \o << 1 >> \o LE24(Len(payload) + 2) \o << freq_div, codec >> \o payload \o << 0 >>
\* a VOC file with one block of type 9 (rate, bits, channels, codec, 4 reserved, samples)
VocType9(rate, bits, channels, codec, payload) ==
    VocHeader \o << 9 >> \o LE24(Len(payload) + 12) \o LE32(rate) \o << bits, channels >>
        \o LE16(codec) \o << 0, 0, 0, 0 >> \o payload \o << 0 >>
\* "RIFF" size "WAVE" "fmt " 16 tag channels rate byterate align bits "data" size samples
WavFile(tag, channels, rate, bits, payload) ==
    << 82, 73, 70, 70 >> \o LE32(36 + Len(payload)) \o << 87, 65, 86, 69 >>
        \o << 102, 109, 116, 32 >> \o LE32(16) \o LE16(tag) \o LE16(channels) \o LE32(rate)
        \o LE32(rate * channels * (bits \div 8)) \o LE16(channels * (bits \div 8)) \o LE16(bits)
        \o << 100, 97, 116, 97 >> \o LE32(Len(payload)) \o payload

(***************************************************************************)
(* VOC / WAV parsing.  A buffer is a sequence of bytes; offsets count from *)
(* 0 as in the source, so byte p of buffer d is d[p + 1].                  *)
(***************************************************************************)
\* readers that take the wrong bytes
read_le16_high(d, p) == d[p + 2]
read_le32_misaligned(d, p) == d[p + 2] + 256 * d[p + 3] + 65536 * d[p + 4]

read_le16(d, p) == d[p + 1] + 256 * d[p + 2]
read_le32(d, p) == d[p + 1] + 256 * d[p + 2] + 65536 * d[p + 3] + 16777216 * d[p + 4]

ParseFail == [ok |-> FALSE, sample_data |-> NULL, sample_length |-> 0, sample_rate |-> 0,
              is_16bit |-> FALSE, is_signed |-> FALSE, codec |-> 0]

\* the block loop of parse_voc, at the block that starts at offset block
RECURSIVE VocBlocks(_, _, _, _)
VocBlocks(r, d, length, block) ==
    IF ~(block < length) THEN ParseFail
    ELSE IF d[block + 1] = 0 THEN ParseFail
    ELSE IF block + 4 > length THEN ParseFail
    ELSE
        LET block_type == d[block + 1]
            block_size == d[block + 2] + 256 * d[block + 3] + 65536 * d[block + 4]
            block_data == block + 4
        IN  IF block_data + block_size > length THEN ParseFail
            ELSE IF block_type = 1 /\ block_size >= 2
                    /\ d[block_data + 2] \in {0, 4} THEN
                [ok |-> TRUE, sample_data |-> block_data + 2,
                 sample_length |-> block_size - 2,
                 sample_rate |-> 1000000 \div (256 - d[block_data + 1]),
                 is_16bit |-> FALSE, is_signed |-> FALSE, codec |-> d[block_data + 2]]
            ELSE IF block_type = 9 /\ block_size >= 12
                    /\ read_le16(d, block_data + 6) \in {0, 4}
                    /\ d[block_data + 6] = 1 THEN
                [ok |-> TRUE, sample_data |-> block_data + 12,
                 sample_length |-> block_size - 12,
                 sample_rate |-> read_le32(d, block_data),
                 is_16bit |-> IF r = 1
                              THEN (d[block_data + 5] = 16) \/ (read_le16(d, block_data + 6) = 4)
                              ELSE d[block_data + 5] = 16,
                 is_signed |-> FALSE,
                 codec |-> IF r = 1 THEN 0 ELSE read_le16(d, block_data + 6)]
            ELSE VocBlocks(r, d, length, block_data + block_size)

parse_voc(r, d, length) ==
    IF length < 26 THEN ParseFail
    ELSE IF SubSeq(d, 1, 20) # VocMagic THEN ParseFail
    ELSE IF read_le16(d, 20) > length THEN ParseFail
    ELSE VocBlocks(r, d, length, read_le16(d, 20))

\* the chunk loop of parse_wav, at the chunk that starts at offset ptr;
\* fmt is << found_fmt, fmt_sample_rate, bits_per_sample >>
RECURSIVE WavChunks(_, _, _, _)
WavChunks(d, length, ptr, fmt) ==
    IF ~(ptr + 8 <= length) THEN ParseFail
    ELSE
        LET chunk_id == SubSeq(d, ptr + 1, ptr + 4)
            chunk_size == read_le32(d, ptr + 4)
            chunk_data == ptr + 8
            next == chunk_data + chunk_size + (chunk_size % 2)
        IN  IF chunk_data + chunk_size > length THEN ParseFail
            ELSE IF chunk_id = << 102, 109, 116, 32 >> THEN
                IF chunk_size < 16 THEN ParseFail
                ELSE IF read_le16(d, chunk_data) # 1 THEN ParseFail
                ELSE WavChunks(d, length, next,
                               << TRUE, read_le32(d, chunk_data + 4),
                                  read_le16(d, chunk_data + 14) >>)
            ELSE IF chunk_id = << 100, 97, 116, 97 >> THEN
                IF ~fmt[1] THEN ParseFail
                ELSE [ok |-> TRUE, sample_data |-> chunk_data, sample_length |-> chunk_size,
                      sample_rate |-> fmt[2], is_16bit |-> (fmt[3] = 16),
                      is_signed |-> (fmt[3] = 16), codec |-> 0]
            ELSE WavChunks(d, length, next, fmt)

parse_wav(d, length) ==
    IF length < 44 THEN ParseFail
    ELSE IF SubSeq(d, 1, 4) # << 82, 73, 70, 70 >> THEN ParseFail
    ELSE IF SubSeq(d, 9, 12) # << 87, 65, 86, 69 >> THEN ParseFail
    ELSE WavChunks(d, length, 12, << FALSE, 0, 0 >>)

(***************************************************************************)
(* The sound data blocks the game passes to the play calls                 *)
(***************************************************************************)
Mem ==
    << Pattern(1),                                   \* 1: raw, 1 sample
       Pattern(2),                                   \* 2: raw, 2 samples
       Pattern(3),                                   \* 3: raw, 3 samples
       Pattern(258),                                 \* 4: raw, more than one local buffer
       VocType1(211, 0, Pattern(2)),                 \* 5: VOC, 8-bit PCM, 22222 Hz
       VocType1(211, 4, Pattern(3)),                 \* 6: VOC, 4-bit ADPCM
       VocType9(22050, 16, 1, 4, Pattern(4)),        \* 7: VOC, 16-bit PCM
       WavFile(1, 1, 22050, 16, Pattern(6)),         \* 8: WAV, 16-bit
       WavFile(1, 1, 22050, 8, Pattern(2)),          \* 9: WAV, 8-bit
       VocType1(211, 4, Pattern(1)),                 \* 10: VOC, ADPCM, reference byte only
       WavFile(2, 1, 22050, 8, Pattern(2)),          \* 11: WAV, not PCM
       Pattern(2 * VOICE_BUFFER_SAMPLES + 5),        \* 12: raw, more than 256 16-bit samples
       VocType1(211, 0, << >>),                      \* 13: VOC, empty sound block
       WavFile(1, 1, 22050, 8, << >>),               \* 14: WAV, data chunk of size 0
       WavFile(1, 1, 22050, 16, Pattern(1)) >>       \* 15: WAV, one byte of 16-bit data

ByteAt(m, p) == Mem[m][p + 1]

(***************************************************************************)
(* voice_t.  buffer holds the local decode buffer up to the last sample   *)
(* ever written, buffer[i + 1] being v->buffer[i]; its first buffer_size   *)
(* samples are the valid ones, the rest are leftovers of earlier refills.  *)
(***************************************************************************)
\* no queue_callback and no drain is under way in a context of its own
NoContexts ==
    [prog |-> << >>, val |-> 0, next_tail |-> 0, idx |-> 0, sent |-> 0,
     at |-> "idle", head |-> 0, i |-> 0]

\* a voice after memset(voices, 0, sizeof(voices))
ZeroVoice ==
    [mem |-> 0, data |-> NULL, data_end |-> NULL, loop_start |-> NULL, loop_end |-> NULL,
     buffer |-> << >>, buffer_size |-> 0,
     offset |-> << 0, 0 >>, step |-> << 0, 0 >>,
     left_vol |-> 0, right_vol |-> 0, priority |-> 0,
     active |-> FALSE, looping |-> FALSE,
     is_16bit |-> FALSE, is_signed |-> FALSE, is_adpcm |-> FALSE,
     adpcm_pred |-> 0, adpcm_step |-> 0, adpcm_index |-> 0,
     callback_val |-> 0]

\* v->buffer_size = 0; the array keeps what it held
Exhausted(v) == [v EXCEPT !.buffer_size = 0]

\* the samples buf written to the head of v->buffer, which keeps the rest of
\* what it held; the field buffer holds the array up to the last sample ever
\* written, the samples behind are 0 since the memset of I_PicoSound_Init
Stored(v, buf) ==
    [v EXCEPT !.buffer = buf \o SubSeq(@, Len(buf) + 1, Len(@)), !.buffer_size = Len(buf)]

\* the samples the last decompress_buffer wrote
Decoded(v) == SubSeq(v.buffer, 1, v.buffer_size)

(***************************************************************************)
(* decompress_buffer                                                       *)
(***************************************************************************)
\* first revision's ADPCM loop; buf holds the samples_decoded samples so far
RECURSIVE AdpcmLoop1(_, _)
AdpcmLoop1(v, buf) ==
    IF ~(Len(buf) < VOICE_BUFFER_SAMPLES /\ v.data < v.data_end)
    THEN Stored(v, buf)
    ELSE
        LET byte == ByteAt(v.mem, v.data)
            d1 == decode_creative_adpcm_nibble(byte \div 16, v.adpcm_pred, v.adpcm_step)
            v1 == [v EXCEPT !.data = @ + 1, !.adpcm_pred = d1[1], !.adpcm_step = d1[2]]
            b1 == Append(buf, U8ToS8(d1[1]))
            d2 == decode_creative_adpcm_nibble(byte % 16, d1[1], d1[2])
            v2 == [v1 EXCEPT !.adpcm_pred = d2[1], !.adpcm_step = d2[2]]
        IN  IF Len(b1) >= VOICE_BUFFER_SAMPLES
            THEN Stored(v1, b1)
            ELSE AdpcmLoop1(v2, Append(b1, U8ToS8(d2[1])))

\* second revision's ADPCM loop
RECURSIVE AdpcmLoop2(_, _)
AdpcmLoop2(v, buf) ==
    IF ~(Len(buf) < VOICE_BUFFER_SAMPLES /\ v.data < v.data_end)
    THEN Stored(v, buf)
    ELSE
        LET byte == ByteAt(v.mem, v.data)
            d1 == decode_adpcm_nibble(byte % 16, v.adpcm_pred, v.adpcm_index)
            v1 == [v EXCEPT !.data = @ + 1, !.adpcm_pred = d1[1], !.adpcm_index = d1[2]]
            b1 == Append(buf, d1[1] \div 256)
            d2 == decode_adpcm_nibble(byte \div 16, d1[1], d1[2])
            v2 == [v1 EXCEPT !.adpcm_pred = d2[1], !.adpcm_index = d2[2]]
        IN  IF Len(b1) >= VOICE_BUFFER_SAMPLES
            THEN Stored(v1, b1)
            ELSE AdpcmLoop2(v2, Append(b1, d2[1] \div 256))

\* PcmCopy that moves the source cursor one byte too far
PcmCopySkip(v) ==
    LET available == IF v.is_16bit THEN TruncDiv(v.data_end - v.data, 2)
                     ELSE v.data_end - v.data
        to_copy == IF available > VOICE_BUFFER_SAMPLES THEN VOICE_BUFFER_SAMPLES ELSE available
        Conv(i) == IF v.is_16bit
                   THEN S16LE(ByteAt(v.mem, v.data + 2 * i), ByteAt(v.mem, v.data + 2 * i + 1))
                        \div 256
                   ELSE IF v.is_signed THEN S8(ByteAt(v.mem, v.data + i))
                   ELSE U8ToS8(ByteAt(v.mem, v.data + i))
    IN  IF to_copy <= 0 THEN Exhausted(v)
        ELSE [Stored(v, [i \in 1 .. to_copy |-> Conv(i - 1)]) EXCEPT
                !.data = @ + (IF v.is_16bit THEN 2 * to_copy ELSE to_copy) + 1]

\* the PCM branch: copy up to VOICE_BUFFER_SAMPLES samples
PcmCopy(v) ==
    LET available == IF v.is_16bit THEN TruncDiv(v.data_end - v.data, 2)
                     ELSE v.data_end - v.data
        to_copy == IF available > VOICE_BUFFER_SAMPLES THEN VOICE_BUFFER_SAMPLES ELSE available
        Conv(i) == IF v.is_16bit
                   THEN S16LE(ByteAt(v.mem, v.data + 2 * i), ByteAt(v.mem, v.data + 2 * i + 1))
                        \div 256
                   ELSE IF v.is_signed THEN S8(ByteAt(v.mem, v.data + i))
                   ELSE U8ToS8(ByteAt(v.mem, v.data + i))
    IN  IF to_copy <= 0 THEN Exhausted(v)
        ELSE [Stored(v, [i \in 1 .. to_copy |-> Conv(i - 1)]) EXCEPT
                !.data = @ + (IF v.is_16bit THEN 2 * to_copy ELSE to_copy)]

\* the decoder state and the cursor of an ADPCM voice at a loop rewind
AdpcmRewound(r, v) ==
    IF r = 1 THEN [v EXCEPT !.data = v.loop_start, !.adpcm_pred = 128, !.adpcm_step = 0 - 1]
    ELSE [v EXCEPT !.data = v.loop_start, !.adpcm_pred = 0, !.adpcm_index = 0]

\* the source-end check at the head of decompress_buffer: the voice with its
\* cursor rewound to loop_start, or marked exhausted by stop |-> TRUE
LoopRewind(r, v) ==
    IF v.data >= v.data_end
    THEN IF v.looping /\ v.loop_start # NULL
         THEN [stop |-> FALSE,
               v |-> IF ~v.is_adpcm THEN [v EXCEPT !.data = v.loop_start]
                     ELSE AdpcmRewound(r, v)]
         ELSE [stop |-> TRUE, v |-> v]
    ELSE [stop |-> FALSE, v |-> v]

\* the first revision's "first byte is the initial raw sample (reference)":
\* v->adpcm_pred = *v->data++, if the decoder waits for it and the source has it
AdpcmFirstByte(v) ==
    IF v.adpcm_step < 0 /\ v.data < v.data_end
    THEN [v EXCEPT !.adpcm_pred = ByteAt(v.mem, v.data), !.data = @ + 1, !.adpcm_step = 0]
    ELSE v

\* the decoding proper, of a voice whose cursor is before the source end
DecodeSamples(r, w) ==
    IF w.is_adpcm THEN
        IF r = 1 THEN AdpcmLoop1(AdpcmFirstByte(w), << >>)
        ELSE AdpcmLoop2(w, << >>)
    ELSE PcmCopy(w)

AfterRewind(r, v, lr) == IF lr.stop THEN Exhausted(v) ELSE DecodeSamples(r, lr.v)

decompress_buffer(r, v) ==
    IF v.data = NULL \/ v.data_end = NULL \/ v.data_end < v.data
    THEN Exhausted(v)
    ELSE AfterRewind(r, v, LoopRewind(r, v))

(***************************************************************************)
(* The functions below work on a record st of the driver's statics that    *)
(* the mixer and the play calls change:                                    *)
(*   v  voices            q  pending_callbacks     h  pending_callback_head*)
(*   t  pending_callback_tail      out  the audio buffer being filled      *)
(*   em, lg  the history variables emitted and log                         *)
(***************************************************************************)
Ev(e, ch, a, b) == [e |-> e, ch |-> ch, a |-> a, b |-> b]

MaxEmitted == 260
Bump(n) == IF n < MaxEmitted THEN n + 1 ELSE n

RECURSIVE FirstInactive(_, _)
FirstInactive(vs, i) ==
    IF i >= NUM_SOUND_CHANNELS THEN 0 - 1
    ELSE IF ~vs[i].active THEN i
    ELSE FirstInactive(vs, i + 1)

\* the scan with <= in place of <: takes a slot that is not strictly below
\* the request, and the last of equal priorities
RECURSIVE LowestPriorityLax(_, _, _, _)
LowestPriorityLax(vs, i, lowest_priority, lowest_slot) ==
    IF i >= NUM_SOUND_CHANNELS THEN lowest_slot
    ELSE IF vs[i].priority <= lowest_priority
         THEN LowestPriorityLax(vs, i + 1, vs[i].priority, i)
         ELSE LowestPriorityLax(vs, i + 1, lowest_priority, lowest_slot)

RECURSIVE LowestPriority(_, _, _, _)
LowestPriority(vs, i, lowest_priority, lowest_slot) ==
    IF i >= NUM_SOUND_CHANNELS THEN lowest_slot
    ELSE IF vs[i].priority < lowest_priority
         THEN LowestPriority(vs, i + 1, vs[i].priority, i)
         ELSE LowestPriority(vs, i + 1, lowest_priority, lowest_slot)

find_voice_slot(vs, priority) ==
    LET free == FirstInactive(vs, 0)
    IN  IF free >= 0 THEN free ELSE LowestPriority(vs, 0, priority, 0 - 1)

handle_to_voice(vs, handle) ==
    IF handle <= 0 THEN 0 - 1
    ELSE LET voice_idx == (handle - 1) % NUM_SOUND_CHANNELS
         IN  IF ~vs[voice_idx].active THEN 0 - 1 ELSE voice_idx

\* queue_callback that counts the tail on without the modulo
queue_callback_unwrapped(st, callback_val) ==
    LET next_tail == st.t + 1
    IN  IF next_tail # st.h
        THEN [st EXCEPT !.q[st.t] = callback_val, !.t = next_tail,
                        !.lg = Append(@, Ev("enqueue", st.t, callback_val, 1))]
        ELSE [st EXCEPT !.lg = Append(@, Ev("enqueue", st.t, callback_val, 0))]

\* queue_callback without the test for a full ring
queue_callback_wrap(st, callback_val) ==
    [st EXCEPT !.q[st.t] = callback_val, !.t = (st.t + 1) % MAX_PENDING_CALLBACKS,
               !.lg = Append(@, Ev("enqueue", st.t, callback_val, 1))]

queue_callback(st, callback_val) ==
    LET next_tail == (st.t + 1) % MAX_PENDING_CALLBACKS
    IN  IF next_tail # st.h
        THEN [st EXCEPT !.q[st.t] = callback_val, !.t = next_tail,
                        !.lg = Append(@, Ev("enqueue", st.t, callback_val, 1))]
        ELSE [st EXCEPT !.lg = Append(@, Ev("enqueue", st.t, callback_val, 0))]

\* stop_voice that queues the token a slot still holds after its sound has ended
stop_voice_stale(st, voice_idx, do_callback) ==
    IF voice_idx < 0 \/ voice_idx >= NUM_SOUND_CHANNELS THEN st
    ELSE
        LET cb == st.v[voice_idx].callback_val
            was_active == st.v[voice_idx].active
            s1 == [st EXCEPT !.v[voice_idx].active = FALSE,
                             !.lg = IF was_active
                                    THEN Append(@, Ev(IF do_callback THEN "steal" ELSE "stop",
                                                      voice_idx, cb, 0))
                                    ELSE @]
        IN  IF do_callback /\ cb # 0 THEN queue_callback(s1, cb) ELSE s1

\* stop_voice that queues the callback whatever do_callback says
stop_voice_loud(st, voice_idx, do_callback) ==
    IF voice_idx < 0 \/ voice_idx >= NUM_SOUND_CHANNELS THEN st
    ELSE
        LET cb == st.v[voice_idx].callback_val
            was_active == st.v[voice_idx].active
            s1 == [st EXCEPT !.v[voice_idx].active = FALSE,
                             !.lg = IF was_active
                                    THEN Append(@, Ev(IF do_callback THEN "steal" ELSE "stop",
                                                      voice_idx, cb, 0))
                                    ELSE @]
        IN  IF was_active /\ cb # 0 THEN queue_callback(s1, cb) ELSE s1

stop_voice(st, voice_idx, do_callback) ==
    IF voice_idx < 0 \/ voice_idx >= NUM_SOUND_CHANNELS THEN st
    ELSE
        LET cb == st.v[voice_idx].callback_val
            was_active == st.v[voice_idx].active
            s1 == [st EXCEPT !.v[voice_idx].active = FALSE,
                             !.lg = IF was_active
                                    THEN Append(@, Ev(IF do_callback THEN "steal" ELSE "stop",
                                                      voice_idx, cb, 0))
                                    ELSE @]
        IN  IF was_active /\ do_callback /\ cb # 0 THEN queue_callback(s1, cb) ELSE s1

(***************************************************************************)
(* mix_audio_buffer                                                        *)
(***************************************************************************)
\* the int8_t values a read behind the array can give
StraySamples == (0 - 128) .. 127

\* v->buffer[idx] of voice ch: within the array the sample that is there,
\* which from buffer_size on is whatever an earlier decompress_buffer left;
\* an index behind the array (which only the second revision reads) gives
\* stray[ch], the value that read of that voice happens to give
ReadBuffer(v, idx, stray, ch) ==
    IF idx < Len(v.buffer) THEN v.buffer[idx + 1]
    ELSE IF idx < VOICE_BUFFER_SAMPLES THEN 0
    ELSE stray[ch]

\* v->offset -= offset_end
Wrapped(st, ch) ==
    LET off == U32SubHi(st.v[ch].offset, st.v[ch].buffer_size)
    IN  [st EXCEPT !.v[ch].offset = off, !.lg = Append(@, Ev("wrap", ch, off[1], 0))]

\* a mixer that calls sound_callback itself when a sound finishes
FinishedDirect(st, ch) ==
    LET cb == st.v[ch].callback_val
    IN  [st EXCEPT
            !.v[ch].active = FALSE,
            !.lg = IF cb # 0
                   THEN Append(Append(@, Ev("invoke", st.h, cb, 0)), Ev("finish", ch, cb, 0))
                   ELSE Append(@, Ev("finish", ch, cb, 0))]

\* a mixer that queues the token of a finished sound whatever it is
FinishedAnyToken(st, ch) ==
    [queue_callback(st, st.v[ch].callback_val) EXCEPT
        !.v[ch].active = FALSE,
        !.lg = Append(@, Ev("finish", ch, st.v[ch].callback_val, 0))]

\* "Sound finished or buffer empty - queue callback"
Finished(st, ch) ==
    LET cb == st.v[ch].callback_val
    IN  [(IF cb # 0 THEN queue_callback(st, cb) ELSE st) EXCEPT
            !.v[ch].active = FALSE,
            !.lg = Append(@, Ev("finish", ch, cb, 0))]

\* decompress_buffer has returned v1 for voice ch
Refilled(st, ch, v1) ==
    [st EXCEPT !.v[ch] = v1, !.lg = Append(@, Ev("refill", ch, v1.buffer_size, 0))]

\* AfterRefill1 without "Clamp offset to new buffer size"
AfterRefill1NoClamp(st, ch) ==
    IF st.v[ch].buffer_size = 0 THEN [go |-> FALSE, st |-> Finished(st, ch)]
    ELSE [go |-> TRUE, st |-> st]

\* first revision, after decompress_buffer: finish, clamp the offset, or go on
AfterRefill1(st, ch) ==
    IF st.v[ch].buffer_size = 0 THEN [go |-> FALSE, st |-> Finished(st, ch)]
    ELSE IF U32GeHi(st.v[ch].offset, st.v[ch].buffer_size)
    THEN [go |-> TRUE, st |-> [st EXCEPT !.v[ch].offset = << 0, 0 >>]]
    ELSE [go |-> TRUE, st |-> st]

\* second revision, after decompress_buffer
AfterRefill2(st, ch) ==
    IF st.v[ch].buffer_size = 0 \/ U32GeHi(st.v[ch].offset, st.v[ch].buffer_size)
    THEN [go |-> FALSE, st |-> Finished(st, ch)]
    ELSE [go |-> TRUE, st |-> st]

\* a refill without the limit of decompress calls
CappedRefill1NoCap(st, ch, decompress_calls) ==
    AfterRefill1(Refilled(st, ch, decompress_buffer(1, st.v[ch])), ch)

\* "Safety: limit decompress calls per voice", then the refill (st is Wrapped)
CappedRefill1(st, ch, decompress_calls) ==
    IF decompress_calls + 1 > MAX_DECOMPRESS_CALLS
    THEN [go |-> FALSE,
          st |-> [st EXCEPT !.v[ch].active = FALSE, !.lg = Append(@, Ev("cap", ch, 0, 0))]]
    ELSE AfterRefill1(Refilled(st, ch, decompress_buffer(1, st.v[ch])), ch)

\* "Buffer exhausted - decompress next block": the state, and whether the
\* sample loop of the voice goes on
Refill(r, st, ch, decompress_calls) ==
    IF r = 1 THEN CappedRefill1(Wrapped(st, ch), ch, decompress_calls)
    ELSE AfterRefill2(Refilled(Wrapped(st, ch), ch,
                               decompress_buffer(2, Wrapped(st, ch).v[ch])), ch)

\* a mixer that scales every voice by the master volume
MixSampleMastered(st, ch, s, buf_idx, voll, volr) ==
    LET v == st.v[ch]
        sample == ReadBuffer(v, buf_idx, st.stray, ch)
    IN  [st EXCEPT !.out[2 * s] = clamp_s16(@ + (sample * voll * master_volume) \div 255),
                   !.out[2 * s + 1] = clamp_s16(@ + (sample * volr * master_volume) \div 255),
                   !.v[ch].offset = U32Add(v.offset, v.step),
                   !.em[ch] = IF v.looping THEN @ ELSE Bump(@),
                   !.lg = Append(@, Ev("read", ch, buf_idx, v.buffer_size))]

\* one output sample of voice ch mixed into out[2s], out[2s+1], and the advance
MixSample(st, ch, s, buf_idx, voll, volr) ==
    LET v == st.v[ch]
        sample == ReadBuffer(v, buf_idx, st.stray, ch)
    IN  [st EXCEPT !.out[2 * s] = clamp_s16(@ + sample * voll),
                   !.out[2 * s + 1] = clamp_s16(@ + sample * volr),
                   !.v[ch].offset = U32Add(v.offset, v.step),
                   !.em[ch] = IF v.looping THEN @ ELSE Bump(@),
                   !.lg = Append(@, Ev("read", ch, buf_idx, v.buffer_size))]

\* for (s = 0; s < sample_count; s++) of voice ch: SampleLoop is the loop head,
\* Advanced the point after v->offset += v->step, Resumed the point after a refill
RECURSIVE SampleLoop(_, _, _, _, _, _, _, _)
RECURSIVE Advanced(_, _, _, _, _, _, _, _)
RECURSIVE Resumed(_, _, _, _, _, _, _, _)

Resumed(r, rf, ch, s, sample_count, decompress_calls, voll, volr) ==
    IF rf.go
    THEN SampleLoop(r, rf.st, ch, s + 1, sample_count, decompress_calls + 1, voll, volr)
    ELSE rf.st

Advanced(r, st, ch, s, sample_count, decompress_calls, voll, volr) ==
    IF U32GeHi(st.v[ch].offset, st.v[ch].buffer_size)
    THEN Resumed(r, Refill(r, st, ch, decompress_calls), ch, s, sample_count,
                 decompress_calls, voll, volr)
    ELSE SampleLoop(r, st, ch, s + 1, sample_count, decompress_calls, voll, volr)

SampleLoop(r, st, ch, s, sample_count, decompress_calls, voll, volr) ==
    IF s >= sample_count THEN st
    ELSE IF r = 1 /\ Hi16(st.v[ch].offset) >= VOICE_BUFFER_SAMPLES
    THEN [st EXCEPT !.v[ch].active = FALSE,
                    !.lg = Append(@, Ev("idx_overflow", ch, Hi16(st.v[ch].offset), 0))]
    ELSE Advanced(r, MixSample(st, ch, s, Hi16(st.v[ch].offset), voll, volr), ch, s,
                  sample_count, decompress_calls, voll, volr)

\* one voice's turn in the channel loop
MixVoice(r, st, ch, sample_count, reverse) ==
    LET v == st.v[ch]
        l == v.left_vol \div 2
        rr == v.right_vol \div 2
        voll == IF reverse THEN rr ELSE l
        volr == IF reverse THEN l ELSE rr
        s0 == IF r = 1 /\ Hi16(v.offset) >= VOICE_BUFFER_SAMPLES
              THEN [st EXCEPT !.v[ch].offset = << 0, 0 >>]
              ELSE st
    IN  IF ~v.active \/ v.buffer_size = 0 THEN st
        ELSE SampleLoop(r, s0, ch, 0, sample_count, 0, voll, volr)

RECURSIVE ChannelLoop(_, _, _, _, _)
ChannelLoop(r, st, ch, sample_count, reverse) ==
    IF ch >= NUM_SOUND_CHANNELS THEN st
    ELSE ChannelLoop(r, MixVoice(r, st, ch, sample_count, reverse), ch + 1,
                     sample_count, reverse)

\* bed: the buffer as the music generator (or memset) left it
mix_audio_buffer(r, st, sample_count, bed, reverse) ==
    [ChannelLoop(r, [st EXCEPT !.out = bed,
                               !.lg = Append(@, Ev("mix", 0 - 1, sample_count, 0))],
                 0, sample_count, reverse)
     EXCEPT !.lg = Append(@, Ev("give", 0 - 1, sample_count, 0))]

Silence(sample_count) == [i \in 0 .. (2 * sample_count - 1) |-> 0]

(***************************************************************************)
(* Play calls                                                              *)
(***************************************************************************)
\* "Calculate step": rate adjusted by pitch, clamped, as 16.16 ratio to the
\* output rate (rate >= 0)
PitchRate(sample_rate, pitchoffset) ==
    IF pitchoffset # 0
    THEN LET r0 == sample_rate + TruncDiv(sample_rate * pitchoffset, 2048)
         IN  IF r0 < 1000 THEN 1000 ELSE IF r0 > 48000 THEN 48000 ELSE r0
    ELSE sample_rate

\* ((uint64_t)rate << 16) / PICO_SOUND_SAMPLE_FREQ, stored in a uint32_t
StepOf(rate) ==
    U32(rate \div PICO_SOUND_SAMPLE_FREQ,
        ((rate % PICO_SOUND_SAMPLE_FREQ) * 65536) \div PICO_SOUND_SAMPLE_FREQ)

\* volumes that ignore vol when left and right are not given
PlayVolumeNoFallback(vol, left, right) ==
    LET Clamp(x) == IF x > 255 THEN 255 ELSE IF x < 0 THEN 0 ELSE x
    IN  << Clamp(left * 4), Clamp(right * 4) >>

\* "Amplify volumes": the stored left_vol / right_vol
PlayVolume(vol, left, right) ==
    LET l0 == IF left <= 0 /\ right <= 0 /\ vol > 0 THEN vol ELSE left
        r0 == IF left <= 0 /\ right <= 0 /\ vol > 0 THEN vol ELSE right
        Clamp(x) == IF x > 255 THEN 255 ELSE IF x < 0 THEN 0 ELSE x
    IN  << Clamp(l0 * 4), Clamp(r0 * 4) >>

HandleOf(counter, slot) == (counter % HANDLE_WRAP) * NUM_SOUND_CHANNELS + slot + 1

\* the voice fields a play call sets before it decompresses the first block
Loaded(r, v0, m, src, loop_start, loop_end, looping) ==
    [v0 EXCEPT
       !.mem = m,
       !.data = src.sample_data,
       !.data_end = src.sample_data + src.sample_length,
       !.loop_start = loop_start,
       !.loop_end = loop_end,
       !.looping = looping,
       !.is_16bit = src.is_16bit,
       !.is_signed = src.is_signed,
       !.is_adpcm = (src.codec = 4),
       !.adpcm_pred = IF src.codec # 4 THEN @ ELSE IF r = 1 THEN 128 ELSE 0,
       !.adpcm_step = IF src.codec = 4 /\ r = 1 THEN 0 - 1 ELSE @,
       !.adpcm_index = IF src.codec = 4 /\ r = 2 THEN 0 ELSE @]

\* the voice fields a play call sets after decompress_buffer
Started(v2, sample_rate, pitchoffset, vol, left, right, priority, callbackval) ==
    [v2 EXCEPT
       !.offset = << 0, 0 >>,
       !.step = StepOf(PitchRate(sample_rate, pitchoffset)),
       !.left_vol = PlayVolume(vol, left, right)[1],
       !.right_vol = PlayVolume(vol, left, right)[2],
       !.priority = priority % 256,
       !.callback_val = callbackval,
       !.active = TRUE]

\* the part the three play calls share, from stop_voice(slot, true) to
\* v->active = true; src is the parsed sample description, s1 the state
\* after stop_voice
StartIn(r, s1, slot, m, src, loop_start, loop_end, looping, pitchoffset, vol, left, right, priority, callbackval) ==
    [s1 EXCEPT
       !.v[slot] = Started(decompress_buffer(r, Loaded(r, s1.v[slot], m, src, loop_start,
                                                      loop_end, looping)),
                           src.sample_rate, pitchoffset, vol, left, right, priority,
                           callbackval),
       !.em[slot] = 0]

\* a play that silences the voice it takes over without queueing its token
StartVoiceSilent(r, st, slot, m, src, loop_start, loop_end, looping, pitchoffset, vol, left, right, priority, callbackval) ==
    StartIn(r, stop_voice(st, slot, FALSE), slot, m, src, loop_start, loop_end, looping,
            pitchoffset, vol, left, right, priority, callbackval)

StartVoice(r, st, slot, m, src, loop_start, loop_end, looping, pitchoffset, vol, left, right, priority, callbackval) ==
    StartIn(r, stop_voice(st, slot, TRUE), slot, m, src, loop_start, loop_end, looping,
            pitchoffset, vol, left, right, priority, callbackval)

\* the sound that was played last into slot ch (0: none)
Tenant(snd, ch) ==
    LET ks == { k \in 1 .. Len(snd) : snd[k].slot = ch }
    IN  IF ks = {} THEN 0 ELSE CHOOSE k \in ks : \A j \in ks : j <= k

\* the events of the log that end a sound
FateEvents == { "finish", "steal", "stop", "cap", "idx_overflow" }

\* the log reports at position i that queue_callback stored a token (the
\* mixer queues before it deactivates, stop_voice after)
StoredAt(lg, i) == i >= 1 /\ i <= Len(lg) /\ lg[i].e = "enqueue" /\ lg[i].b = 1

\* snd with the fates recorded that the log lg of an operation reports
Fates(snd, lg) ==
    [k \in DOMAIN snd |->
        LET is == { i \in 1 .. Len(lg) :
                      lg[i].e \in FateEvents /\ Tenant(snd, lg[i].ch) = k }
            last == CHOOSE i \in is : \A j \in is : j <= i
        IN  IF is = {} THEN snd[k]
            ELSE [snd[k] EXCEPT !.fate = lg[last].e,
                                !.stored = StoredAt(lg, IF lg[last].e = "finish"
                                                        THEN last - 1 ELSE last + 1)]]

\* The functions below work on a record g of the statics MusicGenerator
\* changes and of its locals:
\*   playing music_playing     iters track_iters     next track_next_event_us
\*   running running_tracks    time current_time_us  upb us_per_beat
\*   v voices    ch channels   out the frames written, filled their number
\*   events total_events_processed    lg the history music_log
\*   steps the passes through the generator's loop, done whether it was left
Gen ==
    [playing |-> music_playing, iters |-> track_iters, next |-> track_next_event_us,
     running |-> running_tracks, time |-> current_time_us, upb |-> us_per_beat,
     v |-> opl_voices, ch |-> midi_channels, out |-> << >>, filled |-> 0, events |-> 0,
     steps |-> 0, done |-> FALSE, lg |-> << >>]

\* the generators I_PicoSound_SetMusicGenerator is given: NULL, MusicGenerator
\* of i_music.c, or a function that fills the buffer with one level
NoGenerator == [fn |-> "NULL", level |-> 0]
TheMusicGenerator == [fn |-> "MusicGenerator", level |-> 0]
ConstantGenerator(level) == [fn |-> "constant", level |-> level]

\* mu: the statics of i_music.c, which the registered MusicGenerator changes
St == [v |-> voices, q |-> pending_callbacks, h |-> pending_callback_head,
       t |-> pending_callback_tail, out |-> samples, em |-> emitted, lg |-> << >>,
       mu |-> Gen, stray |-> << >>]

\* the statics take the values of st; the log starts with the call itself
Commit(st, call) ==
    /\ voices' = st.v
    /\ pending_callbacks' = st.q
    /\ pending_callback_tail' = st.t
    /\ samples' = st.out
    /\ emitted' = st.em
    /\ log' = << call >> \o st.lg

\* a play that found slot and started a voice in it
Played(st, slot, name, callbackval) ==
    LET handle == HandleOf(next_handle, slot)
    IN  /\ Commit(st, Ev(name, slot, handle, callbackval))
        /\ next_handle' = next_handle + 1
        /\ sounds' = Append(Fates(sounds, st.lg),
                            [slot |-> slot, handle |-> handle, token |-> callbackval,
                             looping |-> st.v[slot].looping,
                             fate |-> "playing", stored |-> FALSE])
        /\ occupant' = [occupant EXCEPT ![slot] = << handle, @[1] >>]

\* a play that returns 0 after it has taken a handle number
RefusedCounting(name, callbackval) ==
    /\ log' = << Ev(name, 0 - 1, 0, callbackval) >>
    /\ next_handle' = next_handle + 1
    /\ UNCHANGED << voices, pending_callbacks, pending_callback_tail, samples, emitted,
                    occupant, sounds >>

\* a play that returned 0
Refused(name, callbackval) ==
    /\ log' = << Ev(name, 0 - 1, 0, callbackval) >>
    /\ UNCHANGED << voices, pending_callbacks, pending_callback_tail, samples, emitted,
                    next_handle, occupant, sounds >>

Control == << Music, ctx, rev, NUM_SOUND_CHANNELS, sound_initialized, pending_callback_head, processing_callbacks,
              sound_callback, pc, processed, cb_val, master_volume, reverse_stereo,
              max_sample_count, invoked >>

I_PicoSound_PlayRaw(m, length, samplerate, pitchoffset, vol, left, right, priority, callbackval, looping, loopstart, loopend) ==
    /\ UNCHANGED Control
    /\ IF ~sound_initialized \/ m = NULL \/ length = 0 THEN Refused("PlayRaw", callbackval)
       ELSE LET slot == find_voice_slot(voices, priority)
                src == [ok |-> TRUE, sample_data |-> 0, sample_length |-> length,
                        sample_rate |-> samplerate, is_16bit |-> FALSE,
                        is_signed |-> FALSE, codec |-> 0]
            IN  IF slot < 0 THEN Refused("PlayRaw", callbackval)
                ELSE Played(StartVoice(rev, St, slot, m, src, loopstart, loopend, looping,
                                       pitchoffset, vol, left, right, priority, callbackval),
                            slot, "PlayRaw", callbackval)

\* a fallback that ignores the caller's rate
VocSourceDefaultRate(parsed, length, samplerate) ==
    IF parsed.ok THEN parsed
    ELSE [ok |-> FALSE, sample_data |-> 0, sample_length |-> length, sample_rate |-> 11025,
          is_16bit |-> FALSE, is_signed |-> FALSE, codec |-> 0]

\* what PlayVOC plays: the parsed sample data, or, when parse_voc failed,
\* the entire buffer as raw 8-bit unsigned samples
VocSource(parsed, length, samplerate) ==
    IF parsed.ok THEN parsed
    ELSE [ok |-> FALSE, sample_data |-> 0, sample_length |-> length,
          sample_rate |-> IF samplerate > 0 THEN samplerate ELSE 11025,
          is_16bit |-> FALSE, is_signed |-> FALSE, codec |-> 0]

I_PicoSound_PlayVOC(m, length, samplerate, pitchoffset, vol, left, right, priority, callbackval, looping, loopstart, loopend) ==
    /\ UNCHANGED Control
    /\ IF ~sound_initialized THEN Refused("PlayVOC", callbackval)
       ELSE LET parsed == parse_voc(rev, Mem[m], length)
                src == VocSource(parsed, length, samplerate)
                ls == IF ~looping THEN NULL
                      ELSE IF rev = 1 THEN src.sample_data ELSE src.sample_data + loopstart
                le == IF ~looping THEN NULL
                      ELSE IF rev = 1 THEN src.sample_data + src.sample_length
                      ELSE src.sample_data + loopend
                slot == find_voice_slot(voices, priority)
            IN  IF slot < 0 THEN Refused("PlayVOC", callbackval)
                ELSE Played(StartVoice(rev, St, slot, m, src, ls, le, looping,
                                       pitchoffset, vol, left, right, priority, callbackval),
                            slot, "PlayVOC", callbackval)

I_PicoSound_PlayWAV(m, length, pitchoffset, vol, left, right, priority, callbackval, looping, loopstart, loopend) ==
    /\ UNCHANGED Control
    /\ IF ~sound_initialized THEN Refused("PlayWAV", callbackval)
       ELSE LET src == parse_wav(Mem[m], length)
                ls == IF ~looping THEN NULL
                      ELSE IF rev = 1 THEN src.sample_data ELSE src.sample_data + loopstart
                le == IF ~looping THEN NULL
                      ELSE IF rev = 1 THEN src.sample_data + src.sample_length
                      ELSE src.sample_data + loopend
                slot == find_voice_slot(voices, priority)
            IN  IF ~src.ok \/ slot < 0 THEN Refused("PlayWAV", callbackval)
                ELSE Played(StartVoice(rev, St, slot, m, src, ls, le, looping,
                                       pitchoffset, vol, left, right, priority, callbackval),
                            slot, "PlayWAV", callbackval)

(***************************************************************************)
(* Stop and per-voice setters                                              *)
(***************************************************************************)
Statics == << Music, ctx, rev, NUM_SOUND_CHANNELS, sound_initialized, next_handle, pending_callback_head,
              processing_callbacks, sound_callback, pc, processed, cb_val, master_volume,
              reverse_stereo, max_sample_count, occupant, invoked >>

\* Commit for the calls that start no sound
Stopped(st, call) == Commit(st, call) /\ sounds' = Fates(sounds, st.lg)

I_PicoSound_StopVoice(handle) ==
    LET slot == handle_to_voice(voices, handle)
    IN  /\ UNCHANGED Statics
        /\ IF slot >= 0
           THEN Stopped(stop_voice(St, slot, FALSE), Ev("StopVoice", slot, handle, 1))
           ELSE Stopped(St, Ev("StopVoice", slot, handle, 0))

\* a StopAllVoices that reports the sounds it stops to the callback
RECURSIVE StopAllLoud(_, _)
StopAllLoud(st, i) ==
    IF i >= NUM_SOUND_CHANNELS THEN st ELSE StopAllLoud(stop_voice(st, i, TRUE), i + 1)

RECURSIVE StopAll(_, _)
StopAll(st, i) ==
    IF i >= NUM_SOUND_CHANNELS THEN st ELSE StopAll(stop_voice(st, i, FALSE), i + 1)

I_PicoSound_StopAllVoices ==
    /\ UNCHANGED Statics
    /\ Stopped(StopAll(St, 0), Ev("StopAllVoices", 0 - 1, 0, 0))

I_PicoSound_VoicePlaying(handle) ==
    LET slot == handle_to_voice(voices, handle)
    IN  slot >= 0 /\ voices[slot].active

I_PicoSound_VoicesPlaying == Cardinality({i \in Slots : voices[i].active})

I_PicoSound_VoiceAvailable(priority) == find_voice_slot(voices, priority) >= 0

\* a setter that changes voice slot (if any) to nv and nothing else
SetVoice(name, handle, slot, nv) ==
    /\ UNCHANGED Statics
    /\ UNCHANGED << pending_callbacks, pending_callback_tail, samples, emitted, sounds >>
    /\ voices' = IF slot < 0 THEN voices ELSE [voices EXCEPT ![slot] = nv]
    /\ log' = << Ev(name, slot, handle, 0) >>

I_PicoSound_SetPan(handle, vol, left, right) ==
    LET slot == handle_to_voice(voices, handle)
        Clamp(x) == IF x > 255 THEN 255 ELSE IF x < 0 THEN 0 ELSE x
    IN  SetVoice("SetPan", handle, slot,
                 [voices[slot] EXCEPT !.left_vol = Clamp(left), !.right_vol = Clamp(right)])

\* ((uint32_t)frequency << 16) / PICO_SOUND_SAMPLE_FREQ, frequency >= 0
FrequencyStep(frequency) ==
    LET f == frequency % 65536
    IN  U32(f \div PICO_SOUND_SAMPLE_FREQ,
            ((f % PICO_SOUND_SAMPLE_FREQ) * 65536) \div PICO_SOUND_SAMPLE_FREQ)

I_PicoSound_SetFrequency(handle, frequency) ==
    LET slot == handle_to_voice(voices, handle)
    IN  SetVoice("SetFrequency", handle, slot,
                 [voices[slot] EXCEPT !.step = FrequencyStep(frequency)])

I_PicoSound_EndLooping(handle) ==
    LET slot == handle_to_voice(voices, handle)
    IN  SetVoice("EndLooping", handle, slot,
                 [voices[slot] EXCEPT !.looping = FALSE, !.loop_start = NULL])

\* the uint8_t stores keep the low 8 bits; >> 8 of a negative int is arithmetic
I_PicoSound_Pan3D(handle, angle, distance) ==
    LET slot == handle_to_voice(voices, handle)
        vol == IF 255 - distance < 0 THEN 0 ELSE 255 - distance
        pan == IF angle < 128 THEN angle * 2 ELSE (256 - angle) * 2
    IN  SetVoice("Pan3D", handle, slot,
                 [voices[slot] EXCEPT !.left_vol = ((vol * (255 - pan)) \div 256) % 256,
                                      !.right_vol = ((vol * pan) \div 256) % 256])

(***************************************************************************)
(* Global settings                                                         *)
(***************************************************************************)
Voicing == << voices, next_handle, pending_callbacks, pending_callback_head,
              pending_callback_tail, processing_callbacks, pc, processed, cb_val,
              samples, max_sample_count, occupant, emitted, sounds, invoked, rev,
              NUM_SOUND_CHANNELS, Music, ctx >>

I_PicoSound_SetVolume(volume) ==
    /\ master_volume' = IF volume > 255 THEN 255 ELSE IF volume < 0 THEN 0 ELSE volume
    /\ log' = << Ev("SetVolume", 0 - 1, volume, 0) >>
    /\ UNCHANGED Voicing
    /\ UNCHANGED << sound_initialized, sound_callback, reverse_stereo >>

I_PicoSound_GetVolume == master_volume

I_PicoSound_SetReverseStereo(reverse) ==
    /\ reverse_stereo' = reverse
    /\ log' = << Ev("SetReverseStereo", 0 - 1, IF reverse THEN 1 ELSE 0, 0) >>
    /\ UNCHANGED Voicing
    /\ UNCHANGED << sound_initialized, sound_callback, master_volume >>

\* callback: TRUE for a function, FALSE for NULL
I_PicoSound_SetCallback(callback) ==
    /\ sound_callback' = callback
    /\ log' = << Ev("SetCallback", 0 - 1, IF callback THEN 1 ELSE 0, 0) >>
    /\ UNCHANGED Voicing
    /\ UNCHANGED << sound_initialized, master_volume, reverse_stereo >>

\* the calls of I_PicoSound_Init that can fail: audio_new_producer_pool,
\* audio_i2s_setup, audio_i2s_connect_extra
InitFailures == {"producer_pool", "i2s_setup", "i2s_connect"}

\* failure: the call that fails, or "none"; the log keeps the return value
I_PicoSound_Init(failure) ==
    /\ sound_initialized' = (sound_initialized \/ failure = "none")
    /\ voices' = IF sound_initialized \/ failure # "none" THEN voices
                 ELSE [i \in Slots |-> ZeroVoice]
    /\ log' = << Ev("Init", 0 - 1, IF sound_initialized \/ failure = "none" THEN 1 ELSE 0, 0) >>
    /\ UNCHANGED << Music, ctx, rev, NUM_SOUND_CHANNELS, next_handle, pending_callbacks, pending_callback_head,
                    pending_callback_tail, processing_callbacks, sound_callback, pc,
                    processed, cb_val, master_volume, reverse_stereo, samples,
                    max_sample_count, occupant, emitted, sounds, invoked >>

I_PicoSound_Shutdown ==
    /\ sound_initialized' = FALSE
    /\ log' = << Ev("Shutdown", 0 - 1, 0, 0) >>
    /\ UNCHANGED << Music, ctx, rev, NUM_SOUND_CHANNELS, voices, next_handle, pending_callbacks, pending_callback_head,
                    pending_callback_tail, processing_callbacks, sound_callback, pc,
                    processed, cb_val, master_volume, reverse_stereo, samples,
                    max_sample_count, occupant, emitted, sounds, invoked >>

(***************************************************************************)
(* I_PicoSound_Update and the deferred callbacks                           *)
(***************************************************************************)
\* the while loop of process_pending_callbacks with head h and processed n,
\* run up to the next call of sound_callback or to the end of the loop
RECURSIVE DrainLoop(_, _, _, _, _, _)
DrainLoop(q, h, t, n, registered, lg) ==
    IF h # t /\ n < MAX_CALLBACKS_PER_DRAIN
    THEN LET h1 == (h + 1) % MAX_PENDING_CALLBACKS
         IN  IF registered
             THEN [h |-> h1, n |-> n + 1, call |-> TRUE, arg |-> q[h],
                   lg |-> Append(lg, Ev("invoke", h, q[h], n + 1))]
             ELSE DrainLoop(q, h1, t, n + 1, registered,
                            Append(lg, Ev("consume", h, q[h], n + 1)))
    ELSE [h |-> h, n |-> n, call |-> FALSE, arg |-> 0, lg |-> lg]

\* the drain goes on (or starts, with n = 0) until control leaves it: into
\* sound_callback, or back to the caller with the guard flag cleared
Drained(d) ==
        /\ pending_callback_head' = d.h
        /\ processing_callbacks' = d.call
        /\ pc' = IF d.call THEN "callback" ELSE "main"
        /\ processed' = IF d.call THEN d.n ELSE 0
        /\ cb_val' = d.arg
        /\ invoked' = IF d.call THEN Append(invoked, d.arg) ELSE invoked
        /\ log' = IF d.call THEN d.lg ELSE Append(d.lg, Ev("drained", 0 - 1, d.n, 0))

\* a drain that forgets how many entries it has processed
RunDrainForgetful(q, t, n, lg) ==
    Drained(DrainLoop(q, pending_callback_head, t, 0, sound_callback, lg))

RunDrain(q, t, n, lg) ==
    Drained(DrainLoop(q, pending_callback_head, t, n, sound_callback, lg))

\* process_pending_callbacks without the guard: a nested call drains too
process_pending_callbacks_nested(q, t, lg) == RunDrain(q, t, 0, lg)

\* process_pending_callbacks entered with the queue as the mixer left it
process_pending_callbacks(q, t, lg) ==
    IF processing_callbacks
    THEN /\ log' = Append(lg, Ev("blocked", 0 - 1, 0, 0))
         /\ UNCHANGED << pending_callback_head, processing_callbacks, pc, processed, cb_val,
                         invoked >>
    ELSE RunDrain(q, t, 0, lg)

\* the game's callback function returns into the drain that called it
CallbackReturn ==
    /\ pc = "callback"
    /\ RunDrain(pending_callbacks, pending_callback_tail, processed,
                << Ev("Return", 0 - 1, cb_val, 0) >>)
    /\ UNCHANGED << Music, ctx, rev, NUM_SOUND_CHANNELS, sound_initialized, voices, next_handle, pending_callbacks,
                    pending_callback_tail, sound_callback, master_volume, reverse_stereo,
                    samples, max_sample_count, occupant, emitted, sounds >>

(***************************************************************************)
(* Initial states.  The game has called I_PicoSound_Init and registered    *)
(* its completion callback.  With backlog 0 the statics have their         *)
(* initialisers.  With a backlog of n the driver was used before: n sounds *)
(* were stolen by later plays with no update in between, the driver was    *)
(* shut down and initialised again (which clears the voices and leaves the *)
(* queue and the handle counter as they were).                             *)
(***************************************************************************)
(***************************************************************************)
(* i_music.c: the OPL sequencer                                            *)
(***************************************************************************)
OPL_SAMPLE_RATE == 22050
OPL_NUM_VOICES == 9
OPL_SECOND == 1000000
NOTE_ON == 8192
MAX_EVENTS_PER_BUFFER == 200
MAX_CHUNK == 512
\* passes through the generator's loop that are followed
MaxIterations == 4096
\* UINT64_MAX in track_next_event_us and next_event_time: no event
NoEventTime == 2147483647

OplVoices == 0 .. (OPL_NUM_VOICES - 1)

\* the MIDI files of the game: a song is a sequence of tracks, a track a
\* sequence of events
\* a channel event (data.channel); type, length and data are those of a
\* meta event
MidiEvent(delta_time, event_type, channel, param1, param2) ==
    [delta_time |-> delta_time, event_type |-> event_type, channel |-> channel,
     param1 |-> param1, param2 |-> param2, type |-> 0, length |-> 0, data |-> << >>]

\* a meta event (data.meta) of the given type with the bytes data
MetaEvent(delta_time, type, data) ==
    [delta_time |-> delta_time, event_type |-> "META", channel |-> 0, param1 |-> 0,
     param2 |-> 0, type |-> type, length |-> Len(data), data |-> data]

\* 0x2F, end of track
EndOfTrack(delta_time) == MetaEvent(delta_time, 47, << >>)

\* 0x51, set tempo, as the file gives it: three bytes, the highest first
Tempo(delta_time, us) == MetaEvent(delta_time, 81, << us \div 65536, (us \div 256) % 256, us % 256 >>)

\* events of the burst of the dense song
DenseEvents == 205

Songs ==
    << \* 1: a note struck twice before it is released
       << << MidiEvent(0, "NOTE_ON", 0, 60, 100), MidiEvent(1, "NOTE_ON", 0, 60, 90),
             MidiEvent(1, "NOTE_OFF", 0, 60, 0), EndOfTrack(0) >> >>,
       \* 2: two tracks; the first ends without an end-of-track event
       << << MidiEvent(0, "PROGRAM_CHANGE", 1, 5, 0), MidiEvent(0, "NOTE_ON", 1, 62, 80),
             MidiEvent(2, "NOTE_ON", 1, 62, 0), MidiEvent(0, "PITCH_BEND", 1, 0, 65) >>,
          << Tempo(0, 20000), MidiEvent(1, "NOTE_ON", 9, 36, 127),
             MidiEvent(1, "CONTROLLER", 9, 7, 90), MidiEvent(60, "CONTROLLER", 9, 123, 0),
             EndOfTrack(1) >> >>,
       \* 3: a burst of events at one time
       << [i \in 1 .. DenseEvents |->
              MidiEvent(0, IF i % 2 = 1 THEN "NOTE_ON" ELSE "NOTE_OFF", 2, 40, 64)]
          \o << EndOfTrack(0) >> >>,
       \* 4: more notes than the chip has voices
       << [i \in 1 .. (OPL_NUM_VOICES + 3) |->
              MidiEvent(0, "NOTE_ON", IF i = 2 THEN 9 ELSE IF i = 10 THEN 3 ELSE i, 50 + i, 100)]
          \o << MidiEvent(2000, "CONTROLLER", 3, 10, 32), MetaEvent(0, 81, << 1, 2 >>),
                EndOfTrack(0) >> >> >>

\* MIDI_GetFileTimeDivision: the ticks per beat in the header of each file
TimeDivisions == << 480, 96, 480, 480 >>
MIDI_GetFileTimeDivision(song) == TimeDivisions[song]

\* MIDI_GetDeltaTime and MIDI_GetNextEvent of an iterator that has read pos
\* events of track
MIDI_GetDeltaTime(track, pos) == IF pos < Len(track) THEN track[pos + 1].delta_time ELSE 0
MIDI_GetNextEvent(track, pos) == pos < Len(track)

\* track_iters and track_next_event_us when they are NULL: arrays of no
\* track
NullArray == << >>

\* track t of the song loaded
Track(t) == Songs[current_midi][t + 1]

\* a voice and a channel as the zeroed statics hold them
IdleVoice == [active |-> FALSE, channel |-> 0, key |-> 0, velocity |-> 0, timbre |-> 0,
              status |-> 0]
ZeroChannel == [Timbre |-> 0, volume |-> 0, pitchbend |-> 0, pan |-> 0]
\* "Initialize channels", "Reset channels to defaults"
IdleChannel == [Timbre |-> 0, volume |-> 127, pitchbend |-> 0, pan |-> 64]

\* the statics of i_music.c with their initialisers
MusicIdle ==
    /\ music_initialized = FALSE
    /\ opl_emu = NULL
    /\ ticks_per_beat = 480
    /\ music_playing = FALSE
    /\ music_paused = FALSE
    /\ music_looping = FALSE
    /\ current_midi = NULL
    /\ num_tracks = 0
    /\ running_tracks = 0
    /\ track_iters = NullArray
    /\ track_next_event_us = NullArray
    /\ current_time_us = 0
    /\ us_per_beat = 500000
    /\ opl_voices = [i \in OplVoices |-> IdleVoice]
    /\ midi_channels = [c \in 0 .. 15 |-> ZeroChannel]
    /\ timbre_loaded = FALSE
    /\ music_generator = NoGenerator
    /\ music_buffer = << >>
    /\ music_log = << >>

\* AL_SetVoiceTimbre: the patch of the voice's channel, once a bank is loaded
AL_SetVoiceTimbre(g, voice) ==
    IF voice < 0 \/ voice >= OPL_NUM_VOICES \/ ~timbre_loaded THEN g
    ELSE [g EXCEPT !.v[voice].timbre = IF g.v[voice].channel = 9 THEN g.v[voice].key + 128
                                       ELSE g.ch[g.v[voice].channel].Timbre]

AL_NoteOn(g, voice, channel, key, velocity) ==
    IF voice < 0 \/ voice >= OPL_NUM_VOICES THEN g
    ELSE AL_SetVoiceTimbre(
             [g EXCEPT !.v[voice].key = key, !.v[voice].channel = channel,
                       !.v[voice].velocity = velocity, !.v[voice].status = NOTE_ON,
                       !.v[voice].active = TRUE,
                       !.lg = Append(@, Ev("NoteOn", voice, channel, key))],
             voice)

AL_NoteOff(g, voice) ==
    IF voice < 0 \/ voice >= OPL_NUM_VOICES \/ ~g.v[voice].active THEN g
    ELSE [g EXCEPT !.v[voice].status = 0, !.v[voice].active = FALSE,
                   !.lg = Append(@, Ev("NoteOff", voice, g.v[voice].channel, g.v[voice].key))]

\* the first voice that Test accepts, or -1
FirstVoice(Test(_)) ==
    IF \E i \in OplVoices : Test(i)
    THEN CHOOSE i \in OplVoices : Test(i) /\ \A j \in OplVoices : Test(j) => i <= j
    ELSE 0 - 1

\* an allocation that takes the first inactive voice, whatever its timbre
AllocateVoiceAnyFree(vs, chs, channel, key) ==
    LET free == FirstVoice(LAMBDA i : ~vs[i].active)
        own == FirstVoice(LAMBDA i : vs[i].channel = channel)
        perc == FirstVoice(LAMBDA i : vs[i].channel = 9)
    IN  IF free >= 0 THEN free
        ELSE IF own >= 0 THEN own
        ELSE IF perc >= 0 THEN perc
        ELSE 0

\* the voice AllocateVoice returns
AllocateVoice(vs, chs, channel, key) ==
    LET target_timbre == IF channel = 9 THEN key + 128 ELSE chs[channel].Timbre
        same == FirstVoice(LAMBDA i : ~vs[i].active /\ vs[i].timbre = target_timbre)
        free == FirstVoice(LAMBDA i : ~vs[i].active)
        own == FirstVoice(LAMBDA i : vs[i].channel = channel)
        perc == FirstVoice(LAMBDA i : vs[i].channel = 9)
    IN  IF same >= 0 THEN same
        ELSE IF free >= 0 THEN free
        ELSE IF own >= 0 THEN own
        ELSE IF perc >= 0 THEN perc
        ELSE 0

FindVoice(vs, channel, key) ==
    FirstVoice(LAMBDA i : vs[i].active /\ vs[i].channel = channel /\ vs[i].key = key)

RECURSIVE AllNotesOff(_, _, _)
AllNotesOff(g, channel, i) ==
    IF i >= OPL_NUM_VOICES THEN g
    ELSE AllNotesOff(IF g.v[i].channel = channel THEN AL_NoteOff(g, i) ELSE g, channel, i + 1)

\* the note is struck on voice; a voice that was busy is stolen
NoteStruck(g, voice, channel, key, velocity) ==
    AL_NoteOn(AL_NoteOff(g, voice), voice, channel, key, velocity)

\* a | b of two ints that are not negative
RECURSIVE BitOr(_, _)
BitOr(a, b) ==
    IF a = 0 THEN b
    ELSE IF b = 0 THEN a
    ELSE 2 * BitOr(a \div 2, b \div 2) + (IF a % 2 = 1 \/ b % 2 = 1 THEN 1 ELSE 0)

ProcessMIDIEvent(g, event) ==
    LET c == event.channel IN
    IF event.event_type = "NOTE_OFF"
       \/ (event.event_type = "NOTE_ON" /\ event.param2 = 0)
    THEN AL_NoteOff(g, FindVoice(g.v, c, event.param1))
    ELSE IF event.event_type = "NOTE_ON"
    THEN NoteStruck(g, AllocateVoice(g.v, g.ch, c, event.param1), c, event.param1,
                    event.param2)
    ELSE IF event.event_type = "CONTROLLER"
    THEN IF event.param1 = 7 THEN [g EXCEPT !.ch[c].volume = event.param2]
         ELSE IF event.param1 = 10 THEN [g EXCEPT !.ch[c].pan = event.param2]
         ELSE IF event.param1 = 123 THEN AllNotesOff(g, c, 0)
         ELSE g
    ELSE IF event.event_type = "PROGRAM_CHANGE"
    THEN [g EXCEPT !.ch[c].Timbre = event.param1]
    ELSE IF event.event_type = "PITCH_BEND"
    THEN [g EXCEPT !.ch[c].pitchbend = BitOr(event.param2 * 128, event.param1) - 8192]
    ELSE IF event.event_type = "META" /\ event.type = 81 /\ event.length = 3
    THEN [g EXCEPT !.upb = BitOr(BitOr(event.data[1] * 65536, event.data[2] * 256),
                                 event.data[3])]
    ELSE g

\* an entry of the sequencer's history with the virtual clock at that step
EvAt(e, ch, a, b, time) == [e |-> e, ch |-> ch, a |-> a, b |-> b, time |-> time]

\* delta_us = ((uint64_t)delta * us_per_beat) / ticks_per_beat
DeltaUs(g, t) == (MIDI_GetDeltaTime(Track(t), g.iters[t]) * g.upb) \div ticks_per_beat

\* a schedule that counts the delta from the start of the song
ScheduleNextEventFromZero(g, t) ==
    IF g.iters = NullArray \/ g.iters[t] = NULL THEN g
    ELSE [g EXCEPT !.next[t] = DeltaUs(g, t),
                   !.lg = Append(@, EvAt("schedule", t, DeltaUs(g, t), DeltaUs(g, t), g.time))]

ScheduleNextEvent(g, t) ==
    IF g.iters = NullArray \/ g.iters[t] = NULL THEN g
    ELSE [g EXCEPT !.next[t] = g.time + DeltaUs(g, t),
                   !.lg = Append(@, EvAt("schedule", t, DeltaUs(g, t), g.time + DeltaUs(g, t),
                                         g.time))]

\* "Find earliest next event"
NextEventTime(g) ==
    LET live == { t \in 0 .. (num_tracks - 1) : g.iters[t] # NULL }
    IN  IF live = {} THEN NoEventTime
        ELSE CHOOSE x \in { g.next[t] : t \in live } : \A t \in live : x <= g.next[t]

\* (us_until * OPL_SAMPLE_RATE) / OPL_SECOND, with the common factor 50 of
\* the two rates taken out
SamplesIn(us_until) == (us_until * (OPL_SAMPLE_RATE \div 50)) \div (OPL_SECOND \div 50)

\* "Calculate samples until next event"
SamplesUntilEvent(g, next_event_time, samples_to_fill) ==
    IF next_event_time = NoEventTime \/ next_event_time > g.time + 1000000
    THEN samples_to_fill - g.filled
    ELSE IF next_event_time <= g.time THEN 0
    ELSE IF SamplesIn(next_event_time - g.time) > samples_to_fill - g.filled
    THEN samples_to_fill - g.filled
    ELSE SamplesIn(next_event_time - g.time)

\* OPL_calc_buffer_stereo: the level of one sample of the chip, the same on
\* both sides, taken to grow with the voices that sound
OplSample(vs) == 1000 * Cardinality({ i \in OplVoices : vs[i].active })

\* "Amplify by 10x" and clamp
AmplifiedFrame(sample) ==
    LET amp == sample * 10
        c == IF amp > 32767 THEN 32767 ELSE IF amp < 0 - 32768 THEN 0 - 32768 ELSE amp
    IN  << c, c >>

\* "Generate OPL samples": one chunk of at most MAX_CHUNK samples
Generated(g, count) ==
    LET chunk == IF count > MAX_CHUNK THEN MAX_CHUNK ELSE count
    IN  [g EXCEPT !.out = @ \o [i \in 1 .. chunk |-> AmplifiedFrame(OplSample(g.v))],
                  !.filled = @ + chunk,
                  !.time = @ + ((chunk * OPL_SECOND) \div OPL_SAMPLE_RATE),
                  !.lg = Append(@, EvAt("generate", 0 - 1, chunk, g.filled, g.time))]

\* track t is retired
Retired(g, t) ==
    [g EXCEPT !.running = @ - 1, !.iters[t] = NULL, !.next[t] = NoEventTime,
              !.lg = Append(@, Ev("retire", t, 0, 0))]

\* the event of track t is read and processed; g1 is g with the iterator
\* moved on
EventRead(g1, t, event) ==
    IF event.event_type = "META" /\ event.type = 47
    THEN Retired(ProcessMIDIEvent(g1, event), t)
    ELSE ScheduleNextEvent(ProcessMIDIEvent(g1, event), t)

\* "Process one event from earliest track": the scan of the tracks from t on
RECURSIVE ProcessOneEvent(_, _)
ProcessOneEvent(g, t) ==
    IF t >= num_tracks
    THEN [g EXCEPT !.time = @ + 1000, !.lg = Append(@, EvAt("wait", 0 - 1, g.time, 0, g.time))]
    ELSE IF g.iters[t] = NULL \/ g.next[t] > g.time THEN ProcessOneEvent(g, t + 1)
    ELSE IF ~MIDI_GetNextEvent(Track(t), g.iters[t]) THEN Retired(g, t)
    ELSE EventRead([g EXCEPT !.iters[t] = @ + 1, !.events = @ + 1,
                             !.lg = Append(@, [e |-> "event", ch |-> t, a |-> g.iters[t] + 1,
                                                b |-> g.events + 1, time |-> g.time,
                                                due |-> g.next[t]])],
                   t, Track(t)[g.iters[t] + 1])

\* the loop's restart of a song whose tracks have all ended
RECURSIVE ScheduleAll(_, _)
ScheduleAll(g, t) ==
    IF t >= num_tracks THEN g ELSE ScheduleAll(ScheduleNextEvent(g, t), t + 1)

Restarted(g) ==
    ScheduleAll([g EXCEPT !.iters = [t \in DOMAIN @ |-> IF @[t] # NULL THEN 0 ELSE NULL],
                          !.running = num_tracks,
                          !.time = 0,
                          !.lg = Append(@, EvAt("restart", 0 - 1, g.time, 0, g.time))], 0)

\* a sequencer that processes events without a limit per buffer
EventBudgetNone(g) == TRUE

\* total_events_processed < MAX_EVENTS_PER_BUFFER
EventBudget(g) == g.events < MAX_EVENTS_PER_BUFFER

\* if (running_tracks == 0) at the end of an iteration: the song restarts,
\* or it ends and the loop is left
LoopEnd(g) ==
    IF g.running # 0 THEN g
    ELSE IF music_looping /\ current_midi # NULL THEN Restarted(g)
    ELSE [g EXCEPT !.playing = FALSE, !.done = TRUE,
                   !.lg = Append(@, Ev("end", 0 - 1, g.filled, 0))]

\* one pass through while (filled < samples_to_fill), from its test on; done
\* is set when the loop is left
Iteration(g, samples_to_fill) ==
    IF g.filled >= samples_to_fill THEN [g EXCEPT !.done = TRUE]
    ELSE IF SamplesUntilEvent(g, NextEventTime(g), samples_to_fill) > 0
    THEN LoopEnd(Generated([g EXCEPT !.steps = @ + 1],
                           SamplesUntilEvent(g, NextEventTime(g), samples_to_fill)))
    ELSE IF EventBudget(g) THEN LoopEnd(ProcessOneEvent([g EXCEPT !.steps = @ + 1], 0))
    ELSE [g EXCEPT !.done = TRUE, !.lg = Append(@, Ev("cap", 0 - 1, g.filled, g.events))]

\* up to k passes through the loop, the first half of them before the second
RECURSIVE Iterations(_, _, _)
Iterations(g, samples_to_fill, k) ==
    IF g.done \/ k = 0 THEN g
    ELSE IF k = 1 THEN Iteration(g, samples_to_fill)
    ELSE Iterations(Iterations(g, samples_to_fill, k \div 2), samples_to_fill,
                    k - (k \div 2))

\* the loop, run until it is left or for MaxIterations passes
MainLoop(g, samples_to_fill) == Iterations(g, samples_to_fill, MaxIterations)

\* "Fill remaining samples"
RECURSIVE FillRemaining(_, _)
FillRemaining(g, samples_to_fill) ==
    IF g.filled >= samples_to_fill THEN g
    ELSE FillRemaining(Generated(g, samples_to_fill - g.filled), samples_to_fill)

\* buffer->sample_count = samples_to_fill; the history keeps whether the
\* loop was left, the events processed and the passes through the loop
Returned(g) ==
    [g EXCEPT !.lg = Append(@, Ev("return", IF g.done THEN 1 ELSE 0, g.events, g.steps))]

\* a generator that synthesises where it should write silence
SilentFramesSynth(samples_to_fill) ==
    [i \in 1 .. samples_to_fill |-> AmplifiedFrame(OplSample(opl_voices))]

\* memset(out, 0, samples_to_fill * 4)
SilentFrames(samples_to_fill) == [i \in 1 .. samples_to_fill |-> << 0, 0 >>]

\* the sound driver and its history, which i_music.c leaves alone
Sound == << rev, NUM_SOUND_CHANNELS, sound_initialized, voices, next_handle, pending_callbacks,
            pending_callback_head, pending_callback_tail, processing_callbacks,
            sound_callback, pc, processed, cb_val, master_volume, reverse_stereo,
            samples, max_sample_count, occupant, emitted, sounds, invoked, log, ctx >>

\* the statics take the values of g
MusicCommit(g, call) ==
    /\ music_playing' = g.playing
    /\ track_iters' = g.iters
    /\ track_next_event_us' = g.next
    /\ running_tracks' = g.running
    /\ current_time_us' = g.time
    /\ us_per_beat' = g.upb
    /\ opl_voices' = g.v
    /\ midi_channels' = g.ch
    /\ music_buffer' = g.out
    /\ music_log' = << call >> \o g.lg

\* a generator that goes on while the music is paused
GeneratorIdleUnpaused(g) ==
    ~g.playing \/ opl_emu = NULL \/ g.iters = NullArray \/ g.next = NullArray

\* "If music not playing, just clear the buffer and return"
GeneratorIdle(g) ==
    ~g.playing \/ music_paused \/ opl_emu = NULL \/ g.iters = NullArray
        \/ g.next = NullArray

\* the locals of a new call
Called(g) ==
    [g EXCEPT !.out = << >>, !.filled = 0, !.events = 0, !.steps = 0, !.done = FALSE,
              !.lg = << >>]

\* the mixer's call of MusicGenerator for a buffer of samples_to_fill
\* frames, as a change of g; the history starts with the call itself
MusicGenerator(g, samples_to_fill) ==
    IF GeneratorIdle(g)
    THEN [Called(g) EXCEPT !.out = SilentFrames(samples_to_fill),
                           !.lg = << Ev("MusicGenerator", 0 - 1, 0, 0) >>]
    ELSE [Returned(FillRemaining(MainLoop(Called(g), samples_to_fill), samples_to_fill))
          EXCEPT !.lg = << Ev("MusicGenerator", 0 - 1, 1, 0) >> \o @]

(***************************************************************************)
(* I_PicoSound_Update                                                      *)
(***************************************************************************)
\* the interleaved samples of the generator's frames
BedOf(frames) ==
    [i \in 0 .. (2 * Len(frames) - 1) |-> frames[(i \div 2) + 1][(i % 2) + 1]]

WithMusic(st, g) == [st EXCEPT !.mu = g, !.out = BedOf(g.out)]

\* "Start with silence or music": the buffer before the voices are mixed in
MusicBed(st, sample_count) ==
    IF music_generator.fn = "NULL" THEN [st EXCEPT !.out = Silence(sample_count)]
    ELSE IF music_generator.fn = "constant"
    THEN [st EXCEPT !.out = [i \in 0 .. (2 * sample_count - 1) |-> music_generator.level]]
    ELSE WithMusic(st, MusicGenerator(st.mu, sample_count))

MixOver(r, st, sample_count, reverse) == mix_audio_buffer(r, st, sample_count, st.out, reverse)

RECURSIVE MixBuffers(_, _, _, _, _)
MixBuffers(r, st, n, sample_count, reverse) ==
    IF n <= 0 THEN st
    ELSE MixBuffers(r, MixOver(r, MusicBed(st, sample_count), sample_count, reverse),
                    n - 1, sample_count, reverse)

\* the buffers one update mixes ("if (buffers_processed > 10) break" in the
\* first revision)
Taken(available) ==
    IF rev = 1 /\ available > MAX_BUFFERS_PER_UPDATE + 1
    THEN MAX_BUFFERS_PER_UPDATE + 1 ELSE available

\* the statics of i_music.c after the update's calls of the generator
MusicMixed(g, n) ==
    IF music_generator.fn = "MusicGenerator" /\ n > 0
    THEN /\ music_playing' = g.playing
         /\ track_iters' = g.iters
         /\ track_next_event_us' = g.next
         /\ running_tracks' = g.running
         /\ current_time_us' = g.time
         /\ us_per_beat' = g.upb
         /\ opl_voices' = g.v
         /\ midi_channels' = g.ch
         /\ music_buffer' = g.out
         /\ music_log' = g.lg
    ELSE UNCHANGED << music_playing, track_iters, track_next_event_us, running_tracks,
                      current_time_us, us_per_beat, opl_voices, midi_channels, music_buffer,
                      music_log >>

\* the update's buffers are mixed, st is what the mixer left: on to the drain
Mixed(st, n) ==
    /\ voices' = st.v
    /\ pending_callbacks' = st.q
    /\ pending_callback_tail' = st.t
    /\ samples' = st.out
    /\ emitted' = st.em
    /\ sounds' = Fates(sounds, st.lg)
    /\ MusicMixed(st.mu, n)
    /\ process_pending_callbacks(st.q, st.t, st.lg)

\* the update's n buffers mixed, the read behind the array of voice ch giving stray[ch]
MixAll(stray, n) ==
    MixBuffers(rev, [St EXCEPT !.stray = stray, !.lg = << Ev("Update", 0 - 1, n, 0) >>],
               n, max_sample_count, reverse_stereo)

\* the voices whose first read of this update is behind the array: the second
\* revision reads v->buffer[v->offset >> 16] unchecked, and the index is beyond
\* the array only on the first read of a voice that enters the pass with
\* such an offset (after every advance an offset at or beyond buffer_size is
\* wrapped, and the voice ends if it still is)
ReadBehind ==
    IF rev # 2 THEN {}
    ELSE { ch \in Slots : /\ voices[ch].active /\ voices[ch].buffer_size # 0
                          /\ Hi16(voices[ch].offset) >= VOICE_BUFFER_SAMPLES }

\* what the reads behind the arrays can give in this update: a value for
\* each such voice, each whatever lies behind that voice's array
StrayReads == [ReadBehind -> StraySamples]

\* available: how many buffers take_audio_buffer hands out before it returns NULL
I_PicoSound_Update(available) ==
    /\ UNCHANGED << ctx, rev, NUM_SOUND_CHANNELS, sound_initialized, next_handle, sound_callback,
                    master_volume, reverse_stereo, max_sample_count, occupant >>
    /\ UNCHANGED << music_paused, music_looping, current_midi, num_tracks, timbre_loaded,
                    music_initialized, opl_emu, ticks_per_beat, music_generator >>
    /\ IF ~sound_initialized
       THEN /\ log' = << Ev("Update", 0 - 1, 0, 0) >>
            /\ UNCHANGED << voices, pending_callbacks, pending_callback_tail, samples,
                            emitted, pending_callback_head, processing_callbacks, pc,
                            processed, cb_val, sounds, invoked >>
            /\ UNCHANGED << music_playing, track_iters, track_next_event_us, running_tracks,
                            current_time_us, us_per_beat, opl_voices, midi_channels,
                            music_buffer, music_log >>
       ELSE \E stray \in StrayReads : Mixed(MixAll(stray, Taken(available)), Taken(available))

\* generator: the function the mixer is to call for its music, or NoGenerator
I_PicoSound_SetMusicGenerator(generator) ==
    /\ music_generator' = generator
    /\ log' = << Ev("SetMusicGenerator", 0 - 1, generator.level, 0) >>
    /\ UNCHANGED << ctx, rev, NUM_SOUND_CHANNELS, sound_initialized, voices, next_handle,
                    pending_callbacks, pending_callback_head, pending_callback_tail,
                    processing_callbacks, sound_callback, pc, processed, cb_val,
                    master_volume, reverse_stereo, samples, max_sample_count, occupant,
                    emitted, sounds, invoked >>
    /\ UNCHANGED << music_playing, music_paused, music_looping, current_midi, num_tracks,
                    running_tracks, track_iters, track_next_event_us, current_time_us,
                    us_per_beat, opl_voices, midi_channels, timbre_loaded,
                    music_initialized, opl_emu, ticks_per_beat, music_buffer,
                    music_log >>

\* I_Music_Stop, as a change of g
RECURSIVE NotesOff(_, _)
NotesOff(g, i) == IF i >= OPL_NUM_VOICES THEN g ELSE NotesOff(AL_NoteOff(g, i), i + 1)

MusicStopped(g) ==
    [NotesOff(g, 0) EXCEPT !.playing = FALSE, !.iters = NullArray, !.next = NullArray,
                         !.running = 0]

\* a generator that is never taken from the mixer
UnregisteredNever == music_generator

\* if (I_PicoSound_IsInitialized()) I_PicoSound_SetMusicGenerator(generator):
\* NULL in I_Music_Stop, MusicGenerator at the end of I_Music_PlayMIDI
Unregistered == IF sound_initialized THEN NoGenerator ELSE music_generator
Registered == IF sound_initialized THEN TheMusicGenerator ELSE music_generator

\* I_Music_Stop; call is the history's entry of the function that stops
MusicStop(call) ==
    /\ MusicCommit([MusicStopped(Gen) EXCEPT !.out = music_buffer], call)
    /\ music_generator' = Unregistered
    /\ music_paused' = FALSE
    /\ current_midi' = NULL
    /\ num_tracks' = 0

I_Music_Stop ==
    /\ UNCHANGED Sound
    /\ MusicStop(Ev("Stop", 0 - 1, 0, 0))
    /\ UNCHANGED << music_looping, timbre_loaded, music_initialized, opl_emu, ticks_per_beat >>

\* the emulator OPL_new gives
TheEmulator == 1

\* "Clear all voices" and "Initialize channels" of I_Music_Init, as a change
\* of g
MusicInitialized(g) ==
    [g EXCEPT !.v = [i \in OplVoices |-> [@[i] EXCEPT !.active = FALSE]],
              !.ch = [c \in 0 .. 15 |-> IdleChannel]]

\* the song and what is left of it, which I_Music_Init leaves alone
Song == << music_playing, music_paused, music_looping, current_midi, num_tracks,
           running_tracks, track_iters, track_next_event_us, current_time_us, us_per_beat,
           ticks_per_beat, timbre_loaded, music_generator, music_buffer >>

\* failure: "opl" if OPL_new gives no emulator, "none" if it gives one
I_Music_Init(failure) ==
    /\ UNCHANGED << Sound, Song >>
    /\ IF music_initialized
       THEN /\ music_log' = << Ev("Init", 0 - 1, 1, 0) >>
            /\ UNCHANGED << music_initialized, opl_emu, opl_voices, midi_channels >>
       ELSE IF failure = "opl"
       THEN /\ music_log' = << Ev("Init", 0 - 1, 0, 0) >>
            /\ opl_emu' = NULL
            /\ UNCHANGED << music_initialized, opl_voices, midi_channels >>
       ELSE /\ music_log' = << Ev("Init", 0 - 1, 1, 0) >>
            /\ opl_emu' = TheEmulator
            /\ music_initialized' = TRUE
            /\ opl_voices' = MusicInitialized(Gen).v
            /\ midi_channels' = MusicInitialized(Gen).ch

I_Music_Shutdown ==
    /\ UNCHANGED Sound
    /\ IF ~music_initialized
       THEN /\ music_log' = << Ev("Shutdown", 0 - 1, 0, 0) >>
            /\ UNCHANGED << Song, music_initialized, opl_emu, opl_voices, midi_channels >>
       ELSE /\ MusicStop(Ev("Shutdown", 0 - 1, 1, 0))
            /\ opl_emu' = NULL
            /\ music_initialized' = FALSE
            /\ UNCHANGED << music_looping, timbre_loaded, ticks_per_beat >>

\* the song is loaded: iterators, first events, channels and voices
Loaded_MIDI(g, song) ==
    [g EXCEPT !.iters = [t \in 0 .. (Len(Songs[song]) - 1) |-> 0],
              !.next = [t \in 0 .. (Len(Songs[song]) - 1) |->
                           (MIDI_GetDeltaTime(Songs[song][t + 1], 0) * 500000)
                               \div MIDI_GetFileTimeDivision(song)],
              !.time = 0,
              !.running = Len(Songs[song]),
              !.upb = 500000,
              !.ch = [c \in 0 .. 15 |-> IdleChannel],
              !.v = [i \in OplVoices |-> [IdleVoice EXCEPT !.timbre = 0 - 1]],
              !.playing = TRUE]

\* the steps I_Music_PlayMIDI can fail at: up to the parse of the file, and
\* the two allocations after it
LoadFailures == {"open", "size", "buffer", "read", "write", "parse"}
AllocFailures == {"iterators", "timing"}

\* the statics I_Music_PlayMIDI goes on with: those I_Music_Init leaves if
\* the module was not initialised
Entered == IF music_initialized THEN Gen ELSE MusicInitialized(Gen)

\* song: the number of the MIDI file; failure: the step that fails if it is
\* reached ("opl": OPL_new of I_Music_Init), or "none"
I_Music_PlayMIDI(song, loop, failure) ==
    /\ UNCHANGED << Sound, timbre_loaded >>
    /\ IF ~music_initialized /\ failure = "opl"
       THEN /\ music_log' = << Ev("PlayMIDI", 0 - 1, 0, 0) >>
            /\ opl_emu' = NULL
            /\ UNCHANGED << music_initialized, music_playing, music_paused, music_looping,
                            current_midi, num_tracks, running_tracks, track_iters,
                            track_next_event_us, current_time_us, us_per_beat,
                            ticks_per_beat, opl_voices, midi_channels, music_generator,
                            music_buffer >>
       ELSE /\ music_initialized' = TRUE
            /\ opl_emu' = IF music_initialized THEN opl_emu ELSE TheEmulator
            /\ music_paused' = FALSE
            /\ IF failure \in LoadFailures
               THEN /\ MusicCommit([MusicStopped(Entered) EXCEPT !.out = music_buffer],
                                   Ev("PlayMIDI", 0 - 1, 0, 0))
                    /\ current_midi' = NULL
                    /\ num_tracks' = 0
                    /\ music_generator' = Unregistered
                    /\ UNCHANGED << music_looping, ticks_per_beat >>
               ELSE IF failure \in AllocFailures
               THEN /\ MusicCommit([MusicStopped(Entered) EXCEPT !.out = music_buffer,
                                                                 !.upb = 500000],
                                   Ev("PlayMIDI", 0 - 1, 0, 0))
                    /\ current_midi' = NULL
                    /\ num_tracks' = Len(Songs[song])
                    /\ ticks_per_beat' = MIDI_GetFileTimeDivision(song)
                    /\ music_generator' = Unregistered
                    /\ UNCHANGED music_looping
               ELSE /\ MusicCommit([Loaded_MIDI(MusicStopped(Entered), song)
                                       EXCEPT !.out = music_buffer],
                                   Ev("PlayMIDI", 0 - 1, 1, song))
                    /\ current_midi' = song
                    /\ num_tracks' = Len(Songs[song])
                    /\ ticks_per_beat' = MIDI_GetFileTimeDivision(song)
                    /\ music_generator' = Registered
                    /\ music_looping' = loop

\* a pause that does not ask whether a song is playing
I_Music_PauseAlways ==
    /\ UNCHANGED Sound
    /\ music_paused' = TRUE
    /\ music_log' = << Ev("Pause", 0 - 1, 0, 0) >>
    /\ UNCHANGED << music_playing, music_looping, current_midi, num_tracks, running_tracks,
                    track_iters, track_next_event_us, current_time_us, us_per_beat,
                    opl_voices, midi_channels, timbre_loaded,
                    music_initialized, opl_emu, ticks_per_beat, music_generator,
                    music_buffer >>

I_Music_Pause ==
    /\ UNCHANGED Sound
    /\ music_paused' = (music_playing \/ music_paused)
    /\ music_log' = << Ev("Pause", 0 - 1, 0, 0) >>
    /\ UNCHANGED << music_playing, music_looping, current_midi, num_tracks, running_tracks,
                    track_iters, track_next_event_us, current_time_us, us_per_beat,
                    opl_voices, midi_channels, timbre_loaded,
                    music_initialized, opl_emu, ticks_per_beat, music_generator,
                    music_buffer >>

I_Music_Resume ==
    /\ UNCHANGED Sound
    /\ music_paused' = FALSE
    /\ music_log' = << Ev("Resume", 0 - 1, 0, 0) >>
    /\ UNCHANGED << music_playing, music_looping, current_midi, num_tracks, running_tracks,
                    track_iters, track_next_event_us, current_time_us, us_per_beat,
                    opl_voices, midi_channels, timbre_loaded,
                    music_initialized, opl_emu, ticks_per_beat, music_generator,
                    music_buffer >>

\* timbres: the bank the game hands over, or NULL
I_Music_RegisterTimbreBank(timbres) ==
    /\ UNCHANGED Sound
    /\ timbre_loaded' = IF timbres = NULL THEN timbre_loaded ELSE TRUE
    /\ music_log' = << Ev("RegisterTimbreBank", 0 - 1, IF timbres = NULL THEN 0 ELSE 1, 0) >>
    /\ UNCHANGED << music_playing, music_paused, music_looping, current_midi, num_tracks,
                    running_tracks, track_iters, track_next_event_us, current_time_us,
                    us_per_beat, opl_voices, midi_channels, music_generator, music_buffer,
                    music_initialized, opl_emu, ticks_per_beat >>

I_Music_IsPlaying == music_playing /\ ~music_paused

\* the token the i-th sound of the backlog carried
BacklogToken(i) == 100 + i

InitWith(revs, pools, counts, backlogs) ==
    /\ rev \in revs
    /\ NUM_SOUND_CHANNELS \in pools
    /\ \E n \in backlogs :
          /\ pending_callbacks = [i \in 0 .. (MAX_PENDING_CALLBACKS - 1) |->
                                    IF i < n THEN BacklogToken(i + 1) ELSE 0]
          /\ pending_callback_tail = n
          /\ next_handle = IF n = 0 THEN 1 ELSE NUM_SOUND_CHANNELS + n + 1
    /\ max_sample_count \in counts
    /\ sound_initialized = TRUE
    /\ voices = [i \in Slots |-> ZeroVoice]
    /\ pending_callback_head = 0
    /\ processing_callbacks = FALSE
    /\ sound_callback = TRUE
    /\ pc = "main"
    /\ processed = 0
    /\ cb_val = 0
    /\ master_volume = 255
    /\ reverse_stereo = FALSE
    /\ samples = Silence(0)
    /\ occupant = [i \in Slots |-> << 0, 0 >>]
    /\ emitted = [i \in Slots |-> 0]
    /\ sounds = << >>
    /\ invoked = << >>
    /\ log = << >>
    /\ ctx = NoContexts
    /\ MusicIdle

\* handles the game holds: the ones the play calls returned for the current
\* and the previous sound of each slot
HeldHandles == { occupant[i][1] : i \in Slots } \cup { occupant[i][2] : i \in Slots }

(***************************************************************************)
(* SpecMix: sounds of every format, rate and length are played and mixed   *)
(***************************************************************************)
PoolSize == 2
MaxPlaysMix == 1
SmallPass == 1
BigPass == 24
FastRate == 300 * PICO_SOUND_SAMPLE_FREQ

InitMix == InitWith({1, 2}, {PoolSize}, {BigPass}, {0})

\* << block, rate, looping, callbackval >> of the raw sounds played
RawRequests ==
    { << 1, PICO_SOUND_SAMPLE_FREQ, FALSE, 7 >>,
      << 1, PICO_SOUND_SAMPLE_FREQ, TRUE, 7 >>,
      << 1, 44100, TRUE, 0 >>,
      << 2, PICO_SOUND_SAMPLE_FREQ, FALSE, 7 >>,
      << 3, 11025, FALSE, 0 >>,
      << 4, PICO_SOUND_SAMPLE_FREQ, FALSE, 7 >>,
      << 4, FastRate, TRUE, 7 >> }

\* the raw sounds played while an earlier sound may still play
LaterRequests == { << 2, PICO_SOUND_SAMPLE_FREQ, FALSE, 7 >> }

\* << block, looping >> of the VOC files played
VocRequests == { << 6, FALSE >>, << 7, FALSE >>, << 7, TRUE >> }

NextMix ==
    \/ /\ Len(sounds) < MaxPlaysMix
       /\ \E rq \in (IF sounds = << >> THEN RawRequests ELSE LaterRequests) :
            I_PicoSound_PlayRaw(rq[1], Len(Mem[rq[1]]), rq[2], 0, 32, 0, 0, 1, rq[4], rq[3],
                                IF rq[3] THEN 0 ELSE NULL,
                                IF rq[3] THEN Len(Mem[rq[1]]) ELSE NULL)
    \/ /\ sounds = << >>
       /\ \E rq \in VocRequests :
            I_PicoSound_PlayVOC(rq[1], Len(Mem[rq[1]]), 0, 0, 32, 0, 0, 1, 7, rq[2], 0,
                                parse_voc(rev, Mem[rq[1]], Len(Mem[rq[1]])).sample_length)
    \/ /\ sounds = << >>
       /\ \E m \in {8, 9}, looping \in BOOLEAN :
            I_PicoSound_PlayWAV(m, Len(Mem[m]), 0, 32, 0, 0, 1, 7, looping, 0,
                                parse_wav(Mem[m], Len(Mem[m])).sample_length)
    \/ \E available \in {1, 2} : I_PicoSound_Update(available)
    \/ CallbackReturn
    \/ \E h \in HeldHandles : I_PicoSound_StopVoice(h)
    \/ \E h \in HeldHandles : I_PicoSound_EndLooping(h)

SpecMix == InitMix /\ [][NextMix]_vars

(***************************************************************************)
(* SpecLength: 8-bit PCM sounds of several lengths are played once, at the *)
(* output rate, into an empty or a full callback queue                     *)
(***************************************************************************)
MaxPlaysLength == 1

InitLength == InitWith({1, 2}, {PoolSize}, {BigPass}, {0, MAX_PENDING_CALLBACKS - 1})

PlayRawLength ==
    /\ Len(sounds) < MaxPlaysLength
    /\ \E m \in (IF sounds = << >> THEN {1, 2, 3, 4} ELSE {2}) :
          I_PicoSound_PlayRaw(m, Len(Mem[m]), PICO_SOUND_SAMPLE_FREQ, 0, 32, 0, 0, 1,
                              Len(sounds) + 1, FALSE, NULL, NULL)

PlayWavLength ==
    /\ sounds = << >>
    /\ I_PicoSound_PlayWAV(9, Len(Mem[9]), 0, 32, 0, 0, 1, Len(sounds) + 1, FALSE, 0, 0)

NextLength ==
    \/ PlayRawLength
    \/ PlayWavLength
    \/ \E available \in {1, 2} : I_PicoSound_Update(available)
    \/ CallbackReturn
    \/ \E h \in HeldHandles : I_PicoSound_StopVoice(h)

SpecLength == InitLength /\ [][NextLength]_vars

(***************************************************************************)
(* SpecPool: short sounds with priorities and tokens compete for the pool, *)
(* are stopped, stolen or play to their end, and the game polls            *)
(***************************************************************************)
MaxPlaysPool == 3
MaxPriority == 2

InitPool == InitWith({1, 2}, {PoolSize}, {SmallPass}, {0})

\* the k-th play passes k as its token; the even plays pass 0
PlayPool ==
    /\ Len(sounds) < MaxPlaysPool
    /\ \E priority \in 1 .. MaxPriority :
            I_PicoSound_PlayRaw(2, Len(Mem[2]), PICO_SOUND_SAMPLE_FREQ, 0, 32, 0, 0,
                                priority,
                                IF Len(sounds) % 2 = 1 THEN 0 ELSE Len(sounds) + 1,
                                FALSE, NULL, NULL)

UpdatePool == I_PicoSound_Update(1)

NextPool ==
    \/ PlayPool
    \/ UpdatePool
    \/ CallbackReturn
    \/ \E h \in HeldHandles : I_PicoSound_StopVoice(h)
    \/ I_PicoSound_StopAllVoices

SpecPool == InitPool /\ [][NextPool]_vars

(***************************************************************************)
(* The local decode buffer is read in bounds                               *)
(***************************************************************************)
\* positions of the log
Pos == 1 .. Len(log)

\* a refill of voice ch lies strictly between log positions i and j
RefillBetween(ch, i, j) ==
    \E k \in (i + 1) .. (j - 1) : log[k].e = "refill" /\ log[k].ch = ch

\* C1: every read of a voice's local buffer in mix_audio_buffer uses an index
\* offset>>16 below the voice's buffer_size and below 256; an advance that
\* takes the offset to buffer_size*65536 or beyond (the mixer then subtracts
\* the buffer length) is followed by a refill before the voice's buffer is
\* read again, and no voice is left between operations with its offset
\* outside its buffer.
ReadWithinBuffer ==
    /\ \A i \in Pos : log[i].e = "read" =>
          log[i].a < log[i].b /\ log[i].a < VOICE_BUFFER_SAMPLES
    /\ \A i \in Pos, j \in Pos :
          (i < j /\ log[i].e = "wrap" /\ log[j].e = "read" /\ log[j].ch = log[i].ch)
             => RefillBetween(log[i].ch, i, j)
    /\ \A ch \in Slots :
          (voices[ch].active /\ voices[ch].buffer_size > 0)
             => Hi16(voices[ch].offset) < voices[ch].buffer_size

\* a voice whose step exceeds a whole local buffer ran off its buffer, was
\* refilled and was read again in the same pass
ReadAfterRefillWitness ==
    \E i \in Pos, j \in Pos, k \in Pos :
        /\ i < j /\ j < k
        /\ log[i].e = "wrap" /\ log[j].e = "refill" /\ log[k].e = "read"
        /\ log[j].ch = log[i].ch /\ log[k].ch = log[i].ch
        /\ Hi16(voices[log[i].ch].step) >= VOICE_BUFFER_SAMPLES

(***************************************************************************)
(* Completion callbacks                                                    *)
(***************************************************************************)
\* the tokens waiting in the ring, oldest first
QueueLen == (pending_callback_tail - pending_callback_head) % MAX_PENDING_CALLBACKS
QueueSeq ==
    [i \in 1 .. QueueLen |->
        pending_callbacks[(pending_callback_head + i - 1) % MAX_PENDING_CALLBACKS]]

\* how often token c occurs in the sequence q
Occurrences(q, c) == Cardinality({ i \in 1 .. Len(q) : q[i] = c })

\* the k-th sound was played and ended in one of the ways of fates
Ended(k, fates) == k <= Len(sounds) /\ sounds[k].fate \in fates

\* sound_callback has been called with the token of the k-th sound
Delivered(k) == k <= Len(sounds) /\ Occurrences(invoked, sounds[k].token) > 0

\* how often the token of the k-th sound has been delivered or waits for it
Notifications(k) == Occurrences(QueueSeq \o invoked, sounds[k].token)

\* the tokens that wait once the operation that leads to the next state has
\* mixed: from the old head to the new tail
Waiting ==
    [i \in 1 .. ((pending_callback_tail' - pending_callback_head) % MAX_PENDING_CALLBACKS) |->
        pending_callbacks'[(pending_callback_head + i - 1) % MAX_PENDING_CALLBACKS]]

\* a drain that may run (an update outside a drain, or the return of a
\* callback into its drain, below the limit of 8) calls sound_callback with
\* the oldest waiting token; nothing else calls it
DrainDelivers ==
    IF \/ log'[1].e = "Update" /\ sound_initialized /\ ~processing_callbacks
       \/ log'[1].e = "Return" /\ processed < MAX_CALLBACKS_PER_DRAIN
    THEN IF Len(Waiting) > 0 /\ sound_callback
         THEN invoked' = Append(invoked, Waiting[1]) /\ pc' = "callback"
         ELSE invoked' = invoked
    ELSE invoked' = invoked

\* a token is dropped only when the queue is full
DropsOnlyWhenFull ==
    \A i \in 1 .. Len(log') :
        (log'[i].e = "enqueue" /\ log'[i].b = 0) => Len(Waiting) = MAX_PENDING_CALLBACKS - 1

\* C2 as claimed, in the form a finite run refutes: the token of every sound
\* that ended by natural completion or by being stolen has been passed to
\* sound_callback or waits in the queue for the next drain, exactly once; the
\* token of a sound that ended by StopVoice or StopAllVoices is neither
\* delivered nor queued.
CallbackOncePerCompletion ==
    \A k \in 1 .. Len(sounds) :
        /\ Ended(k, {"finish", "steal"}) => Notifications(k) = 1
        /\ Ended(k, {"stop"}) => Notifications(k) = 0

\* C2 amended: the same for the sounds played with a non-zero token (token 0
\* asks for no notification) that end while the queue has room, as it has in
\* every state here, and the callback stays registered: the token of a sound
\* that ended by completion or steal was stored by queue_callback and has been
\* delivered or waits for it, exactly once; the token of a sound that still
\* plays or ended by StopVoice or StopAllVoices was not stored and is neither
\* delivered nor waiting; and every drain that runs passes the oldest waiting
\* token to sound_callback.
CallbackOncePerTokenCompletion ==
    /\ [](/\ sound_callback
          /\ QueueLen < MAX_PENDING_CALLBACKS - 1
          /\ \A k \in 1 .. Len(sounds) :
                sounds[k].token # 0 =>
                   /\ sounds[k].stored <=> Ended(k, {"finish", "steal"})
                   /\ Ended(k, {"finish", "steal"}) => Notifications(k) = 1
                   /\ ~Ended(k, {"finish", "steal"}) => Notifications(k) = 0)
    /\ [][DrainDelivers]_vars

\* one sound was stolen, another played to its end, and both tokens have
\* been delivered
CallbackOnceWitness ==
    \E j \in 1 .. Len(sounds), k \in 1 .. Len(sounds) :
        /\ Ended(j, {"steal"}) /\ sounds[j].token # 0 /\ Delivered(j)
        /\ Ended(k, {"finish"}) /\ sounds[k].token # 0 /\ Delivered(k)

(***************************************************************************)
(* A sound of N samples is heard for N output samples                      *)
(***************************************************************************)
\* where the samples of block m start: behind the header of a WAV or VOC file
PcmStart(m) ==
    IF parse_wav(Mem[m], Len(Mem[m])).ok THEN parse_wav(Mem[m], Len(Mem[m])).sample_data
    ELSE IF parse_voc(rev, Mem[m], Len(Mem[m])).ok
    THEN parse_voc(rev, Mem[m], Len(Mem[m])).sample_data
    ELSE 0

\* the k-th sound was started as non-looping 8-bit PCM with a non-zero token,
\* plays at step 65536, still owns its voice and was not stopped by the game
PlainSound(k) ==
    LET v == voices[sounds[k].slot]
    IN  /\ Tenant(sounds, sounds[k].slot) = k
        /\ ~sounds[k].looping /\ sounds[k].token # 0
        /\ ~v.is_16bit /\ ~v.is_adpcm /\ v.step = << 1, 0 >>
        /\ sounds[k].fate # "stop"

\* the samples the source of the k-th sound holds
SourceSamples(k) ==
    voices[sounds[k].slot].data_end - PcmStart(voices[sounds[k].slot].mem)

\* the log ends the sound of voice ch at position i in the iteration that
\* read a sample: read, advance past the buffer, empty refill, queue_callback
\* with the token, deactivation
EndsInReadIteration(ch, i, token) ==
    /\ i >= 5
    /\ log[i - 4].e = "read" /\ log[i - 4].ch = ch
    /\ log[i - 3].e = "wrap" /\ log[i - 3].ch = ch
    /\ log[i - 2].e = "refill" /\ log[i - 2].ch = ch /\ log[i - 2].a = 0
    /\ log[i - 1].e = "enqueue" /\ log[i - 1].a = token
    /\ Cardinality({ j \in Pos : log[j].e = "enqueue" /\ log[j].a = token }) = 1

\* the part of C3 about the samples and the moment of deactivation: while
\* the voice is active it has emitted fewer than N samples; once it is not,
\* the mixer ended it by completion, it has emitted exactly N, and the
\* operation that ended it called queue_callback with its token once, in the
\* iteration of the N-th sample
EmitsSourceSamples(k) ==
    LET slot == sounds[k].slot
    IN  /\ voices[slot].active =>
              sounds[k].fate = "playing" /\ emitted[slot] < SourceSamples(k)
        /\ ~voices[slot].active =>
              sounds[k].fate = "finish" /\ emitted[slot] = SourceSamples(k)
        /\ \A i \in Pos :
              (log[i].e = "finish" /\ log[i].ch = slot)
                 => EndsInReadIteration(slot, i, sounds[k].token)

\* C3 as claimed: a non-looping 8-bit PCM sound of N samples at step 65536
\* contributes to exactly N output samples, is deactivated in the iteration
\* that emits the N-th and has exactly one queue entry with its token stored
\* at that moment.
EmitsAndQueuesOnce ==
    \A k \in 1 .. Len(sounds) :
        PlainSound(k) =>
            /\ EmitsSourceSamples(k)
            /\ sounds[k].fate = "finish" => sounds[k].stored

\* C3 amended: ... and queue_callback is called exactly once with its token
\* at that moment, which stores one entry unless the queue is full.
EmitsAndNotifiesOnce ==
    /\ [](\A k \in 1 .. Len(sounds) : PlainSound(k) => EmitsSourceSamples(k))
    /\ [][DropsOnlyWhenFull]_vars

\* a sound longer than the local buffer has played to its end over several
\* passes and its token was stored
EmitsWitness ==
    \E k \in 1 .. Len(sounds) :
        /\ PlainSound(k) /\ sounds[k].fate = "finish" /\ sounds[k].stored
        /\ SourceSamples(k) > VOICE_BUFFER_SAMPLES
        /\ emitted[sounds[k].slot] = SourceSamples(k)

(***************************************************************************)
(* Looping voices                                                          *)
(***************************************************************************)
\* C4: a voice started with looping enabled stays active, whatever its
\* source length, format and step, unless StopVoice, StopAllVoices,
\* EndLooping or a steal by another play was applied to it.
LoopingStaysActive ==
    \A k \in 1 .. Len(sounds) :
        LET slot == sounds[k].slot
        IN  (/\ sounds[k].looping
             /\ Tenant(sounds, slot) = k
             /\ voices[slot].looping
             /\ sounds[k].fate \notin {"stop", "steal"})
                => voices[slot].active /\ sounds[k].fate = "playing"

(***************************************************************************)
(* SpecSlot: a play looks for a slot in a pool of every occupancy          *)
(***************************************************************************)
SlotPool == 3
MaxSlotPriority == 2
MaxPlaysSlot == 1

\* the statics before the first play
SeedSt(n) ==
    [v |-> [i \in 0 .. (n - 1) |-> ZeroVoice],
     q |-> [i \in 0 .. (MAX_PENDING_CALLBACKS - 1) |-> 0],
     h |-> 0, t |-> 0, out |-> Silence(0), em |-> [i \in 0 .. (n - 1) |-> 0],
     lg |-> << >>]

\* the token the game passes with a sound of the given priority
SlotToken(priority) == 10 + priority

\* the pool after n plays of a two-sample raw sound into the n free slots,
\* the i-th with priority prio[i], and StopVoice on the slots not in act
SeedVoices(r, n, prio, act) ==
    [i \in 0 .. (n - 1) |->
        [StartIn(r, SeedSt(n), i, 2,
                 [ok |-> TRUE, sample_data |-> 0, sample_length |-> Len(Mem[2]),
                  sample_rate |-> PICO_SOUND_SAMPLE_FREQ, is_16bit |-> FALSE,
                  is_signed |-> FALSE, codec |-> 0],
                 NULL, NULL, FALSE, 0, 32, 0, 0, prio[i], SlotToken(prio[i])).v[i]
         EXCEPT !.active = act[i]]]

InitSlot ==
    /\ rev \in {1, 2}
    /\ NUM_SOUND_CHANNELS = SlotPool
    /\ \E prio \in [Slots -> 0 .. MaxSlotPriority], act \in [Slots -> BOOLEAN] :
          voices = SeedVoices(rev, NUM_SOUND_CHANNELS, prio, act)
    /\ next_handle = NUM_SOUND_CHANNELS + 1
    /\ occupant = [i \in Slots |-> << HandleOf(i + 1, i), 0 >>]
    /\ pending_callbacks = [i \in 0 .. (MAX_PENDING_CALLBACKS - 1) |-> 0]
    /\ pending_callback_head = 0
    /\ pending_callback_tail = 0
    /\ max_sample_count = SmallPass
    /\ sound_initialized = TRUE
    /\ processing_callbacks = FALSE
    /\ sound_callback = TRUE
    /\ pc = "main"
    /\ processed = 0
    /\ cb_val = 0
    /\ master_volume = 255
    /\ reverse_stereo = FALSE
    /\ samples = Silence(0)
    /\ emitted = [i \in Slots |-> 0]
    /\ sounds = << >>
    /\ invoked = << >>
    /\ log = << >>
    /\ ctx = NoContexts
    /\ MusicIdle

PlaySlot ==
    /\ Len(sounds) < MaxPlaysSlot
    /\ \E priority \in 0 .. (MaxSlotPriority + 1) :
            I_PicoSound_PlayRaw(2, Len(Mem[2]), PICO_SOUND_SAMPLE_FREQ, 0, 32, 0, 0,
                                priority, SlotToken(priority), FALSE, NULL, NULL)

NextSlot == PlaySlot

SpecSlot == InitSlot /\ [][NextSlot]_vars

(***************************************************************************)
(* The slot a play gets                                                    *)
(***************************************************************************)
\* the least element of a non-empty set of slots
Least(S) == CHOOSE i \in S : \A j \in S : i <= j

\* the slot the request of priority p is entitled to in the pool vs
SlotFor(vs, p) ==
    LET inactive == { i \in Slots : ~vs[i].active }
        below == { i \in Slots : vs[i].priority < p }
        lowest == { i \in below : \A j \in below : vs[i].priority <= vs[j].priority }
    IN  IF inactive # {} THEN Least(inactive)
        ELSE IF below = {} THEN 0 - 1
        ELSE Least(lowest)

\* a play call that got a slot took the slot it is entitled to; one that
\* was refused a slot was entitled to none
PlayTakesSlotFor ==
    (log' # << >> /\ log'[1].e = "PlayRaw")
        => /\ log'[1].ch = SlotFor(voices, log'[1].b - SlotToken(0))
           /\ (\E i \in Slots : ~voices[i].active)
                 => \A k \in 1 .. Len(log') : log'[k].e # "steal"

\* C5: find_voice_slot(p) returns the lowest-indexed inactive slot if there
\* is one (no voice is evicted then); otherwise, of the slots with priority
\* strictly below p, the one of lowest priority, the lowest index among
\* equals; otherwise -1.
SlotChoice ==
    /\ [](\A p \in 0 .. (MaxSlotPriority + 1) :
            find_voice_slot(voices, p) = SlotFor(voices, p))
    /\ [][PlayTakesSlotFor]_vars

\* a play evicted the first of two voices of the same, lowest priority
SlotChoiceWitness ==
    \E k \in 1 .. Len(log), j \in Slots :
        /\ log[1].e = "PlayRaw"
        /\ log[k].e = "steal"
        /\ log[k].ch < j
        /\ voices[j].active
        /\ SlotToken(voices[j].priority) = log[k].a
        /\ \E i \in Slots : voices[i].priority > voices[j].priority /\ i # log[1].ch

(***************************************************************************)
(* SpecFive: five sounds of rising priority for a pool of four voices      *)
(***************************************************************************)
\* the priorities of the plays, in order; the k-th play passes k as token
FivePriorities == << 1, 2, 3, 4, 5 >>

\* the sounds played: the first four are the raw block of 3 samples, the
\* fifth a raw block of 1, 2 or 3 samples
FiveBlocks(k) == IF k < Len(FivePriorities) THEN { 3 } ELSE { 1, 2, 3 }

InitFive == InitWith({1, 2}, {Len(FivePriorities) - 1}, {SmallPass}, {0})

PlayFive ==
    /\ Len(sounds) < Len(FivePriorities)
    /\ \E m \in FiveBlocks(Len(sounds) + 1) :
            I_PicoSound_PlayRaw(m, Len(Mem[m]), PICO_SOUND_SAMPLE_FREQ, 0, 32, 0, 0,
                                FivePriorities[Len(sounds) + 1], Len(sounds) + 1,
                                FALSE, NULL, NULL)

\* an update that finds no free buffer, or one
UpdateFive == \E available \in {0, 1} : I_PicoSound_Update(available)

NextFive ==
    \/ PlayFive
    \/ UpdateFive
    \/ CallbackReturn

SpecFive == InitFive /\ [][NextFive]_vars

(***************************************************************************)
(* The fifth sound evicts the first                                        *)
(***************************************************************************)
\* the four voices play the first four sounds
FourPlaying ==
    /\ Len(sounds) = Len(FivePriorities) - 1
    /\ \A k \in 1 .. Len(sounds) : sounds[k].fate = "playing" /\ sounds[k].slot = k - 1
    /\ \A i \in Slots : voices[i].active

\* five sounds were played and the fifth found the first four still active
\* (only then is a voice stolen)
FifthEvicted ==
    /\ Len(sounds) = Len(FivePriorities)
    /\ sounds[1].fate = "steal"

\* token c was passed to the registered callback
Invoked(c) == \E n \in 1 .. Len(invoked) : invoked[n] = c

\* the 5th play takes slot 0 from the priority-1 sound and queues its token
FifthPlayEvicts ==
    (FourPlaying /\ log' # << >> /\ log'[1].e = "PlayRaw")
        => /\ Len(sounds') = Len(FivePriorities)
           /\ sounds'[5].slot = 0
           /\ voices'[0].active /\ voices'[0].priority = FivePriorities[5]
           /\ sounds'[1].fate = "steal" /\ sounds'[1].stored
           /\ pending_callbacks'[pending_callback_tail] = sounds[1].token
           /\ pending_callback_tail' = (pending_callback_tail + 1) % MAX_PENDING_CALLBACKS
           /\ pending_callback_head' = pending_callback_tail

\* the first update after the 5th play passes the priority-1 sound's token to
\* the callback, whatever its mix did
NextUpdateDelivers ==
    (FifthEvicted /\ ~Invoked(sounds[1].token) /\ log' # << >> /\ log'[1].e = "Update")
        => invoked' = << sounds[1].token >>

\* the 5th sound is deactivated by completion in the operation just done,
\* and the priority-1 sound's token is passed to the callback only after that
FifthCompletesFirst ==
    \E i \in 1 .. Len(log) :
        /\ log[i].e = "finish" /\ log[i].a = sounds[5].token
        /\ \/ ~Invoked(sounds[1].token)
           \/ \E j \in (i + 1) .. Len(log) :
                  log[j].e = "invoke" /\ log[j].a = sounds[1].token

\* C6 as claimed: with the first four of the five sounds still active at the
\* 5th play, the 5th sound takes slot 0 and the priority-1 sound's token is
\* delivered before the 5th sound is deactivated by completion, whatever the
\* length of the 5th sound.
DeliveredBeforeFifthCompletes ==
    FifthEvicted => sounds[5].slot = 0 /\ ~FifthCompletesFirst

\* C6: with the first four of the five sounds still active at the 5th play,
\* the 5th play takes slot 0 from the priority-1 sound and queues its token;
\* the drain of the next update delivers the token first, after that
\* update's mix; once the 5th sound is complete the token has been
\* delivered, and it is delivered before the 5th sound's own token.
FifthEvictsAndFirstTokenLeads ==
    /\ [][FifthPlayEvicts /\ NextUpdateDelivers]_vars
    /\ [](FifthEvicted =>
            /\ sounds[5].slot = 0
            /\ sounds[5].fate = "finish" => Invoked(sounds[1].token)
            /\ \A n \in 1 .. Len(invoked) :
                  invoked[n] = sounds[5].token
                      => \E k \in 1 .. (n - 1) : invoked[k] = sounds[1].token)

\* the priority-1 sound's token has been delivered while the 5th sound plays
FifthEvictsWitness ==
    /\ FifthEvicted
    /\ invoked = << sounds[1].token >>
    /\ sounds[5].fate = "playing"
    /\ voices[0].active

(***************************************************************************)
(* SpecHandle: the game keeps the handles of earlier sounds and uses them  *)
(***************************************************************************)
MaxPlaysHandle == 2

InitHandle == InitWith({1, 2}, {PoolSize}, {SmallPass}, {0})

\* the k-th play has priority k and token k; a looping sound loops over the
\* whole block
PlayHandle ==
    /\ Len(sounds) < MaxPlaysHandle
    /\ \E looping \in BOOLEAN :
            I_PicoSound_PlayRaw(2, Len(Mem[2]), PICO_SOUND_SAMPLE_FREQ, 0, 32, 0, 0,
                                Len(sounds) + 1, Len(sounds) + 1, looping,
                                IF looping THEN 0 ELSE NULL,
                                IF looping THEN Len(Mem[2]) ELSE NULL)

NextHandle ==
    \/ PlayHandle
    \/ \E h \in HeldHandles : I_PicoSound_StopVoice(h)
    \/ \E h \in HeldHandles : I_PicoSound_SetPan(h, 0, 10, 20)
    \/ \E h \in HeldHandles : I_PicoSound_SetFrequency(h, 11025)
    \/ \E h \in HeldHandles : I_PicoSound_EndLooping(h)
    \/ \E h \in HeldHandles : I_PicoSound_Pan3D(h, 64, 100)

SpecHandle == InitHandle /\ [][NextHandle]_vars

(***************************************************************************)
(* Handles of sounds whose slot was given to a later sound                 *)
(***************************************************************************)
\* handle h was returned for a sound whose slot a later play has taken
Stale(h) ==
    \E k \in 1 .. Len(sounds) :
        sounds[k].handle = h /\ Tenant(sounds, sounds[k].slot) > k

\* the generation part of a handle
Generation(h) == (h - 1) \div NUM_SOUND_CHANNELS

\* the calls that take a handle
HandleCalls == { "StopVoice", "SetPan", "SetFrequency", "EndLooping", "Pan3D" }

\* a call with a stale handle leaves every voice as it is
StaleCallIgnored ==
    (log' # << >> /\ log'[1].e \in HandleCalls /\ Stale(log'[1].a)) => voices' = voices

\* C7: for the handle of a sound whose slot was reallocated to a later play,
\* VoicePlaying is false and StopVoice, SetPan, SetFrequency, EndLooping and
\* Pan3D leave the sound that now occupies the slot alone; the generation
\* parts of successive handles increase.
StaleHandlesInvalid ==
    /\ [](\A h \in HeldHandles : Stale(h) => ~I_PicoSound_VoicePlaying(h))
    /\ [][StaleCallIgnored]_vars
    /\ [](\A k \in 1 .. (Len(sounds) - 1) :
            Generation(sounds[k].handle) < Generation(sounds[k + 1].handle))

(***************************************************************************)
(* Stopping is immediate and silent                                        *)
(***************************************************************************)
\* the callback queue is left as it was
QueueUntouched ==
    /\ pending_callback_head' = pending_callback_head
    /\ pending_callback_tail' = pending_callback_tail
    /\ pending_callbacks' = pending_callbacks

\* what a StopVoice that found a voice, and a StopAllVoices, have done when
\* they return
StopSilent ==
    /\ (log' # << >> /\ log'[1].e = "StopVoice" /\ log'[1].ch >= 0)
          => /\ log'[1].ch = handle_to_voice(voices, log'[1].a)
             /\ ~voices'[log'[1].ch].active
             /\ QueueUntouched
    /\ (log' # << >> /\ log'[1].e = "StopAllVoices")
          => /\ \A i \in Slots : ~voices'[i].active
             /\ I_PicoSound_VoicesPlaying' = 0
             /\ QueueUntouched

\* C8: when StopVoice(h) with a valid handle returns the voice of h is
\* inactive, when StopAllVoices returns every voice is inactive and
\* VoicesPlaying() is 0; neither changes the head, the tail or an entry of
\* the callback queue.
StopIsImmediateAndSilent == [][StopSilent]_vars

\* StopAllVoices has stopped a sound that has a token, with an earlier
\* sound's token waiting in the queue
StopSilentWitness ==
    /\ log # << >> /\ log[1].e = "StopAllVoices"
    /\ \E k \in 1 .. Len(log) : log[k].e = "stop" /\ log[k].a # 0
    /\ pending_callback_head # pending_callback_tail

(***************************************************************************)
(* SpecQueue: sounds end while the callback queue is full or nearly full   *)
(***************************************************************************)
MaxPlaysQueue == 3

InitQueue == InitWith({1, 2}, {PoolSize}, {SmallPass},
                      {MAX_PENDING_CALLBACKS - 2, MAX_PENDING_CALLBACKS - 1})

\* the k-th play has priority k and token k; with the pool busy it steals
PlayQueue ==
    /\ Len(sounds) < MaxPlaysQueue
    /\ I_PicoSound_PlayRaw(1, Len(Mem[1]), PICO_SOUND_SAMPLE_FREQ, 0, 32, 0, 0,
                           Len(sounds) + 1, Len(sounds) + 1, FALSE, NULL, NULL)

UpdateQueue == I_PicoSound_Update(1)

NextQueue ==
    \/ PlayQueue
    \/ UpdateQueue
    \/ CallbackReturn

SpecQueue == InitQueue /\ [][NextQueue]_vars

(***************************************************************************)
(* A full callback queue drops the newest token                            *)
(***************************************************************************)
\* the tokens the log reports as stored by queue_callback, in order
StoredTokens(lg) ==
    LET stored == SelectSeq(lg, LAMBDA ev : ev.e = "enqueue" /\ ev.b = 1)
    IN  [i \in 1 .. Len(stored) |-> stored[i].a]

\* the tokens delivered so far followed by the tokens that wait
DeliveryOrder == invoked \o QueueSeq

\* an operation adds the tokens it stored behind the ones already queued
\* and takes none away: a dropped token leaves no trace
QueueOrderKept == DeliveryOrder' = DeliveryOrder \o StoredTokens(log')

\* queue_callback(c) called in this state returns with head, tail and the
\* stored entries as they are
DropChangesNothing(c) ==
    LET r == queue_callback(St, c)
    IN  /\ r.h = pending_callback_head
        /\ r.t = pending_callback_tail
        /\ \A i \in 1 .. QueueLen :
              r.q[(pending_callback_head + i - 1) % MAX_PENDING_CALLBACKS] = QueueSeq[i]

\* C9: queue_callback called with the ring full drops the new token: head,
\* tail and every stored entry are as before the call, and the entries
\* already queued are delivered later in their original order.
FullQueueDropsNewest ==
    /\ [](QueueLen = MAX_PENDING_CALLBACKS - 1
            => \A c \in 1 .. MaxPlaysQueue : DropChangesNothing(c))
    /\ [][QueueOrderKept]_vars

\* a sound ended with the queue full, its token was dropped, and the drain
\* that followed delivered the oldest entry
FullQueueWitness ==
    /\ \E i \in 1 .. Len(log) : log[i].e = "enqueue" /\ log[i].b = 0
    /\ invoked = << BacklogToken(1) >>
    /\ QueueLen = MAX_PENDING_CALLBACKS - 2

(***************************************************************************)
(* A drain entered from a callback                                         *)
(***************************************************************************)
\* the game's callback calls I_PicoSound_Update: its mix may queue tokens,
\* its drain does nothing, and the outer drain is where it was
NestedDrainIsNoOp ==
    (pc = "callback" /\ log' # << >> /\ log'[1].e = "Update")
        => /\ invoked' = invoked
           /\ pending_callback_head' = pending_callback_head
           /\ pending_callback_tail' =
                 (pending_callback_tail + Len(StoredTokens(log'))) % MAX_PENDING_CALLBACKS
           /\ processing_callbacks'
           /\ pc' = "callback" /\ processed' = processed /\ cb_val' = cb_val

\* C10: a process_pending_callbacks entered from a completion callback
\* invokes no callback and changes neither head nor tail, and the guard flag
\* is still set when control is back in the outer drain; the guard flag is
\* set exactly while a drain is in progress.
NestedDrainRefused ==
    /\ [](processing_callbacks <=> pc = "callback")
    /\ [][NestedDrainIsNoOp]_vars

\* the callback has called I_PicoSound_Update with tokens waiting
NestedDrainWitness ==
    /\ pc = "callback"
    /\ log # << >> /\ log[1].e = "Update"
    /\ log[Len(log)].e = "blocked"
    /\ pending_callback_head # pending_callback_tail
    /\ processing_callbacks

(***************************************************************************)
(* Callbacks are deferred to the drain that follows the mix                *)
(***************************************************************************)
\* what mix_audio_buffer logs
MixEvents == { "mix", "read", "wrap", "refill", "finish", "cap", "idx_overflow",
               "enqueue", "give" }

\* C11: sound_callback is not invoked while mix_audio_buffer executes: a
\* completion found by the mixer is only queued, and in an update every
\* buffer taken is mixed and given back before the update's first callback
\* is invoked.
CallbackAfterMix ==
    (log # << >> /\ log[1].e = "Update")
        => /\ Cardinality({ i \in 1 .. Len(log) : log[i].e = "give" }) = log[1].a
           /\ \A i, j \in 1 .. Len(log) :
                 (log[i].e \in {"invoke", "consume"} /\ log[j].e \in MixEvents) => j < i
           /\ \A i \in 1 .. Len(log) :
                 log[i].e = "finish" /\ log[i].a # 0
                     => i > 1 /\ log[i - 1].e = "enqueue" /\ log[i - 1].a = log[i].a

\* an update mixed two buffers, a sound finished in the first of them, and
\* the drain then invoked the callback
CallbackAfterMixWitness ==
    /\ log # << >> /\ log[1].e = "Update" /\ log[1].a = 2
    /\ \E i, j, k \in 1 .. Len(log) :
          /\ i < j /\ j < k
          /\ log[i].e = "finish" /\ log[i].a # 0
          /\ log[j].e = "give"
          /\ log[k].e = "invoke"

(***************************************************************************)
(* SpecRefuse: play calls that the driver can and cannot serve             *)
(***************************************************************************)
MaxPlaysRefuse == 3

InitRefuse == InitWith({1, 2}, {PoolSize}, {SmallPass}, {0})

\* raw plays with and without data, of length 0 and 2
PlayRawRefuse ==
    /\ Len(sounds) < MaxPlaysRefuse
    /\ \E m \in {NULL, 2}, length \in {0, Len(Mem[2])}, priority \in 1 .. MaxPriority :
            I_PicoSound_PlayRaw(m, length, PICO_SOUND_SAMPLE_FREQ, 0, 32, 0, 0,
                                priority, Len(sounds) + 1, FALSE, NULL, NULL)

\* WAV plays of a PCM file and of a file that is not PCM
PlayWavRefuse ==
    /\ Len(sounds) < MaxPlaysRefuse
    /\ \E m \in {9, 11}, priority \in 1 .. MaxPriority :
            I_PicoSound_PlayWAV(m, Len(Mem[m]), 0, 32, 0, 0, priority, Len(sounds) + 1,
                                FALSE, 0, 0)

PlayVocRefuse ==
    /\ Len(sounds) < MaxPlaysRefuse
    /\ \E priority \in 1 .. MaxPriority :
            I_PicoSound_PlayVOC(5, Len(Mem[5]), 0, 0, 32, 0, 0, priority, Len(sounds) + 1,
                                FALSE, 0, 0)

NextRefuse ==
    \/ PlayRawRefuse
    \/ PlayWavRefuse
    \/ PlayVocRefuse
    \/ I_PicoSound_Update(1)
    \/ CallbackReturn
    \/ I_PicoSound_Shutdown
    \/ \E failure \in {"none"} \cup InitFailures : I_PicoSound_Init(failure)

SpecRefuse == InitRefuse /\ [][NextRefuse]_vars

(***************************************************************************)
(* A play call that returns 0                                              *)
(***************************************************************************)
PlayCalls == { "PlayRaw", "PlayVOC", "PlayWAV" }

\* the step is a play call that returned 0
PlayReturnedZero == log' # << >> /\ log'[1].e \in PlayCalls /\ log'[1].a = 0

\* a play call that returned 0 changed no voice, queued nothing and left
\* the handle counter alone
RefusedPlayChangesNothing ==
    PlayReturnedZero
        => /\ voices' = voices
           /\ next_handle' = next_handle
           /\ pending_callbacks' = pending_callbacks
           /\ pending_callback_head' = pending_callback_head
           /\ pending_callback_tail' = pending_callback_tail
           /\ UNCHANGED << sound_initialized, processing_callbacks, sound_callback,
                           master_volume, reverse_stereo, invoked >>

\* C12: a play call that returns 0 (driver not initialised, WAV header
\* rejected, raw play with null data or zero length, no inactive slot and no
\* voice of strictly lower priority) leaves the state as it was: no voice
\* is deactivated or modified, nothing is queued, the handle counter is not
\* advanced.
RefusedPlayIsNoOp == [][RefusedPlayChangesNothing]_vars

\* a play call was refused because both voices play sounds of a priority
\* that is not below the request's
RefusedPlayWitness ==
    /\ log # << >> /\ log[1].e = "PlayVOC" /\ log[1].a = 0
    /\ sound_initialized
    /\ \A i \in Slots : voices[i].active
    /\ next_handle = Len(sounds) + 1
    /\ Len(sounds) = NUM_SOUND_CHANNELS

(***************************************************************************)
(* SpecStart: one play call into an idle pool, with the rates, pitch       *)
(* offsets and volumes the game can pass, followed by updates              *)
(***************************************************************************)
InitStart == InitWith({1, 2}, {PoolSize}, {SmallPass}, {0})

\* buffers that parse_voc rejects: raw bytes, a WAV file, a VOC file cut
\* off inside its header; << block, length >>
RejectedVocs == { << 1, Len(Mem[1]) >>, << 4, Len(Mem[4]) >>, << 11, Len(Mem[11]) >>, << 5, 20 >> }

FallbackRates == { 0 - 1, 0, 8000, 44100 }

\* I_PicoSound_PlayVOC of a buffer that is no VOC file
PlayVocOf(b, samplerate) ==
    I_PicoSound_PlayVOC(b[1], b[2], samplerate, 0, 32, 0, 0, 1, 7, FALSE, 0, 0)

PlayVocStart ==
    /\ sounds = << >>
    /\ \E b \in RejectedVocs, samplerate \in FallbackRates : PlayVocOf(b, samplerate)

\* the three play calls, of a 2-sample sound each
PlayKinds == { "PlayRaw", "PlayVOC", "PlayWAV" }

PlayKind(kind, samplerate, pitchoffset, vol, left, right) ==
    IF kind = "PlayRaw"
    THEN I_PicoSound_PlayRaw(2, Len(Mem[2]), samplerate, pitchoffset, vol, left, right, 1, 7,
                             FALSE, NULL, NULL)
    ELSE IF kind = "PlayVOC"
    THEN I_PicoSound_PlayVOC(5, Len(Mem[5]), samplerate, pitchoffset, vol, left, right, 1, 7,
                             FALSE, 0, 0)
    ELSE I_PicoSound_PlayWAV(9, Len(Mem[9]), pitchoffset, vol, left, right, 1, 7, FALSE, 0, 0)

VolInputs == { 0 - 1, 0, 32, 64 }
PanInputs == { 0 - 2, 0, 10, 63, 64 }

PlayVolumeStart ==
    /\ sounds = << >>
    /\ \E kind \in PlayKinds, vol \in VolInputs, left \in PanInputs, right \in PanInputs :
            PlayKind(kind, PICO_SOUND_SAMPLE_FREQ, 0, vol, left, right)

RateInputs == { 500, 1000, 11025, PICO_SOUND_SAMPLE_FREQ, 48000, 60000 }
PitchInputs == { 0 - 2048, 0 - 1024, 0, 1024, 4096 }

PlayRateStart ==
    /\ sounds = << >>
    /\ \E kind \in PlayKinds, samplerate \in RateInputs, pitchoffset \in PitchInputs :
            PlayKind(kind, samplerate, pitchoffset, 32, 0, 0)

NextStart ==
    \/ PlayVocStart
    \/ PlayVolumeStart
    \/ PlayRateStart
    \/ I_PicoSound_Update(1)
    \/ CallbackReturn

SpecStart == InitStart /\ [][NextStart]_vars

(***************************************************************************)
(* PlayVOC of a buffer without a VOC header                                *)
(***************************************************************************)
\* the first local buffer of a source of unsigned 8-bit samples that is the
\* whole of block m cut at length
WholeBufferUnsigned(m, length) ==
    [i \in 1 .. (IF length > VOICE_BUFFER_SAMPLES THEN VOICE_BUFFER_SAMPLES ELSE length) |->
        Mem[m][i] - 128]

\* the voice v plays the whole buffer as unsigned 8-bit PCM at the caller's
\* rate, or at 11025 Hz when the caller gave none
PlaysWholeBuffer(v, b, samplerate) ==
    /\ v.active
    /\ v.mem = b[1]
    /\ v.data_end = b[2]
    /\ Decoded(v) = WholeBufferUnsigned(b[1], b[2])
    /\ v.data = v.buffer_size
    /\ ~v.is_16bit /\ ~v.is_adpcm /\ ~v.is_signed
    /\ v.step = StepOf(IF samplerate > 0 THEN samplerate ELSE 11025)

VocFallbackPlays ==
    \A b \in RejectedVocs, samplerate \in FallbackRates :
        PlayVocOf(b, samplerate)
            => /\ ~parse_voc(rev, Mem[b[1]], b[2]).ok
               /\ log'[1].a # 0
               /\ PlaysWholeBuffer(voices'[log'[1].ch], b, samplerate)

\* C13: when parse_voc rejects the buffer passed to PlayVOC the sound is
\* played all the same: its source is the whole buffer (from byte 0 to
\* length), its format unsigned 8-bit PCM (not 16-bit, not ADPCM), and its
\* source rate the caller's samplerate if that is > 0, else 11025.
VocFallbackIsRaw == [][VocFallbackPlays]_vars

\* a buffer without a VOC header, longer than the local buffer, was played
\* with no rate given and runs at 11025 Hz
VocFallbackWitness ==
    /\ log # << >> /\ log[1].e = "PlayVOC" /\ log[1].a # 0
    /\ voices[log[1].ch].mem = 4
    /\ voices[log[1].ch].data_end = Len(Mem[4])
    /\ voices[log[1].ch].buffer_size = VOICE_BUFFER_SAMPLES
    /\ voices[log[1].ch].buffer[1] = Mem[4][1] - 128
    /\ voices[log[1].ch].step = StepOf(11025)
    /\ ~voices[log[1].ch].is_16bit /\ ~voices[log[1].ch].is_adpcm

(***************************************************************************)
(* The volumes a play call stores                                          *)
(***************************************************************************)
\* clamp(value * 4, 0, 255)
Amplified(value) ==
    LET x == value * 4 IN IF x < 0 THEN 0 ELSE IF x > 255 THEN 255 ELSE x

\* vol stands in for both channels when neither left nor right is given
VolFallback(vol, left, right) == left <= 0 /\ right <= 0 /\ vol > 0

StoredVolumes ==
    \A kind \in PlayKinds, vol \in VolInputs, left \in PanInputs, right \in PanInputs :
        PlayKind(kind, PICO_SOUND_SAMPLE_FREQ, 0, vol, left, right)
            => /\ log'[1].a # 0
               /\ voices'[log'[1].ch].left_vol =
                      Amplified(IF VolFallback(vol, left, right) THEN vol ELSE left)
               /\ voices'[log'[1].ch].right_vol =
                      Amplified(IF VolFallback(vol, left, right) THEN vol ELSE right)
               /\ (left = 0 /\ right = 0 /\ vol = 64
                      => voices'[log'[1].ch].left_vol = 255
                         /\ voices'[log'[1].ch].right_vol = 255)
               /\ (left = 0 /\ right = 0 /\ vol = 32
                      => voices'[log'[1].ch].left_vol = 128
                         /\ voices'[log'[1].ch].right_vol = 128)

\* C14: for every successful play (VOC, WAV, raw): if left <= 0 and
\* right <= 0 and vol > 0 both channels take vol; the stored left_vol and
\* right_vol are clamp(value * 4, 0, 255); left = 0, right = 0, vol = 64
\* stores 255 and vol = 32 stores 128.
VolumesAmplifiedAndClamped == [][StoredVolumes]_vars

\* a WAV play stored 255 for both channels: vol 64 stood in for left and
\* right, and 64 * 4 = 256 was clamped
VolumesWitness ==
    /\ log # << >> /\ log[1].e = "PlayWAV" /\ log[1].a # 0
    /\ voices[log[1].ch].left_vol = 255
    /\ voices[log[1].ch].right_vol = 255
    /\ voices[log[1].ch].active

(***************************************************************************)
(* The step a play call stores                                             *)
(***************************************************************************)
\* the rate of the source a play call of this kind plays
SourceRate(kind, samplerate) ==
    IF kind = "PlayRaw" THEN samplerate
    ELSE IF kind = "PlayVOC" THEN parse_voc(rev, Mem[5], Len(Mem[5])).sample_rate
    ELSE parse_wav(Mem[9], Len(Mem[9])).sample_rate

\* rate + rate * pitch_offset / 2048, clamped to [1000, 48000]
ClampedRate(rate, pitchoffset) ==
    LET r == rate + TruncDiv(rate * pitchoffset, 2048)
    IN  IF r < 1000 THEN 1000 ELSE IF r > 48000 THEN 48000 ELSE r

\* (r << 16) / output_rate as a 16.16 number << whole, fraction >>: the
\* whole output periods in r, and the 65536ths the rest of r makes
StepOfRate(r) == << r \div PICO_SOUND_SAMPLE_FREQ,
                    ((r % PICO_SOUND_SAMPLE_FREQ) * 65536) \div PICO_SOUND_SAMPLE_FREQ >>

StoredSteps ==
    \A kind \in PlayKinds, samplerate \in RateInputs, pitchoffset \in PitchInputs :
        PlayKind(kind, samplerate, pitchoffset, 32, 0, 0)
            => /\ log'[1].a # 0
               /\ voices'[log'[1].ch].step =
                      StepOfRate(ClampedRate(SourceRate(kind, samplerate), pitchoffset))

\* C15: for every play call, every source rate and every pitch offset the
\* stored step is (r << 16) / output_rate with
\* r = rate + rate * pitch_offset / 2048 clamped to [1000, 48000]: the rate
\* used is never below 1000 nor above 48000.
StepFromClampedRate == [][StoredSteps]_vars

(***************************************************************************)
(* SpecLoud: loud sounds of both signs are mixed over a loud music bed     *)
(***************************************************************************)
MaxPlaysLoud == 2

InitLoud == InitWith({1, 2}, {PoolSize}, {SmallPass}, {0})

\* a raw sound whose first sample is negative (-68), at full or low volume
PlayLoudRaw ==
    /\ Len(sounds) < MaxPlaysLoud
    /\ \E vol \in {16, 64} :
            I_PicoSound_PlayRaw(1, Len(Mem[1]), PICO_SOUND_SAMPLE_FREQ, 0, vol, 0, 0, 1,
                                Len(sounds) + 1, FALSE, NULL, NULL)

\* a 16-bit WAV file whose first sample is positive (113)
PlayLoudWav ==
    /\ Len(sounds) < MaxPlaysLoud
    /\ \E vol \in {16, 64} :
            I_PicoSound_PlayWAV(8, Len(Mem[8]), 0, vol, 0, 0, 1, Len(sounds) + 1, FALSE, 0, 0)

MusicLevels == { 0 - 30000, 0, 30000 }

\* the game registers a generator that fills the buffer with level
SetLevel == \E level \in MusicLevels : I_PicoSound_SetMusicGenerator(ConstantGenerator(level))

NextLoud ==
    \/ PlayLoudRaw
    \/ PlayLoudWav
    \/ SetLevel
    \/ I_PicoSound_Update(1)
    \/ CallbackReturn

SpecLoud == InitLoud /\ [][NextLoud]_vars

(***************************************************************************)
(* The output sample of a mix pass of one sample                           *)
(***************************************************************************)
\* the voices that play in the pass
Sounding == { ch \in Slots : voices[ch].active /\ voices[ch].buffer_size # 0 }

\* sample * gain of voice ch, for the left (side 0) or right (side 1) output
Contribution(ch, side) ==
    IF ch \notin Sounding THEN 0
    ELSE voices[ch].buffer[voices[ch].offset[1] + 1]
         * ((IF side = 0 THEN voices[ch].left_vol ELSE voices[ch].right_vol) \div 2)

RECURSIVE SumFrom(_, _)
SumFrom(ch, side) ==
    IF ch >= NUM_SOUND_CHANNELS THEN 0 ELSE Contribution(ch, side) + SumFrom(ch + 1, side)

Limited(x) == IF x > 32767 THEN 32767 ELSE IF x < 0 - 32768 THEN 0 - 32768 ELSE x

\* the music bed plus every voice's contribution, limited once
LimitedTotal(level, side) == Limited(level + SumFrom(0, side))

\* the contributions added in slot order from voice ch on, limited after
\* each voice
RECURSIVE LimitedInTurn(_, _, _)
LimitedInTurn(acc, ch, side) ==
    IF ch >= NUM_SOUND_CHANNELS THEN acc
    ELSE LimitedInTurn(Limited(acc + Contribution(ch, side)), ch + 1, side)

\* every sum of the bed and the first voices, up to but not including the
\* last sounding voice, is a 16-bit value
RECURSIVE EarlierSumsFit(_, _, _)
EarlierSumsFit(acc, ch, side) ==
    \/ \A later \in Sounding : later <= ch
    \/ /\ acc + Contribution(ch, side) = Limited(acc + Contribution(ch, side))
       /\ EarlierSumsFit(acc + Contribution(ch, side), ch + 1, side)

\* the step is an update that mixed a buffer
MixedOnePass == log' # << >> /\ log'[1] = Ev("Update", 0 - 1, 1, 0)

OutputIsLimitedTotal ==
    \A side \in {0, 1} :
        MixedOnePass => samples'[side] = LimitedTotal(music_generator.level, side)

\* C16: after a mix pass each output sample is the music bed plus the sum
\* over the voices of sample * gain, accumulated wider than 16 bit and
\* clamped to [-32768, 32767] once, on the total: it never wraps and does
\* not depend on the order of the voice slots.
ClampedOnceOnTotal == [][OutputIsLimitedTotal]_vars

OutputIsLimitedInTurn ==
    \A side \in {0, 1} :
        MixedOnePass
            => /\ samples'[side] = LimitedInTurn(music_generator.level, 0, side)
               /\ samples'[side] \in (0 - 32768) .. 32767
               /\ EarlierSumsFit(music_generator.level, 0, side)
                     => samples'[side] = LimitedTotal(music_generator.level, side)

\* what the mixer computes: each voice's sample * gain is added in slot
\* order to the value the buffer holds (the music bed first), in an
\* accumulator wider than 16 bit, and the sum is clamped to
\* [-32768, 32767] after each voice; the output never wraps, and it is the
\* once-clamped total whenever no sum before the last voice's leaves the
\* 16-bit range.
ClampedAfterEachVoice == [][OutputIsLimitedInTurn]_vars

\* a loud positive voice in slot 0 pushed the bed over the limit, the
\* negative voice in slot 1 was then subtracted from the limit
ClampedWitness ==
    /\ log # << >> /\ log[1].e = "Update"
    /\ \E i, j \in 1 .. Len(log) :
          /\ i < j
          /\ log[i].e = "read" /\ log[i].ch = 0
          /\ log[j].e = "read" /\ log[j].ch = 1
    /\ samples[0] = 32767 - 68 * 127
    /\ samples[0] # Limited(30000 + 113 * 127 - 68 * 127)

(***************************************************************************)
(* SpecMusic: songs are started, looping or not, and the mixer asks the    *)
(* generator for buffer after buffer                                       *)
(***************************************************************************)
LongPass == 600
MaxMusicTime == 60000

InitMusic == InitWith({1}, {PoolSize}, {BigPass, LongPass}, {0})

\* a song is started, or the load of song 1 fails at one of its steps
PlaySong ==
    \/ \E song \in 1 .. Len(Songs), loop \in BOOLEAN : I_Music_PlayMIDI(song, loop, "none")
    \/ \E failure \in {"opl"} \cup LoadFailures \cup AllocFailures :
          I_Music_PlayMIDI(1, FALSE, failure)

\* the module is initialised, with or without an emulator to be had
InitSong == \E failure \in {"none", "opl"} : I_Music_Init(failure)

\* the mixer fills a buffer, up to MaxMusicTime of the song's clock
GenerateMusic ==
    /\ sound_initialized /\ music_generator = TheMusicGenerator
    /\ current_time_us < MaxMusicTime
    /\ I_PicoSound_Update(1)

NextMusic ==
    \/ PlaySong
    \/ GenerateMusic
    \/ I_Music_Stop
    \/ I_Music_Pause
    \/ I_Music_Resume
    \/ \E timbres \in {NULL, 1} : I_Music_RegisterTimbreBank(timbres)
    \/ InitSong
    \/ I_Music_Shutdown

SpecMusic == InitMusic /\ [][NextMusic]_vars

(***************************************************************************)
(* One OPL voice per (channel, key)                                        *)
(***************************************************************************)
\* C17: a Note-On (velocity > 0) for a (channel, key) that has an active
\* OPL voice reuses that voice: in every reachable state at most one active
\* OPL voice holds any given (channel, key) pair.
OneVoicePerKey ==
    \A i, j \in OplVoices :
        (opl_voices[i].active /\ opl_voices[j].active
            /\ opl_voices[i].channel = opl_voices[j].channel
            /\ opl_voices[i].key = opl_voices[j].key) => i = j

(***************************************************************************)
(* A looping song                                                          *)
(***************************************************************************)
\* a looping song is playing
LoopingSong == music_playing /\ music_looping /\ current_midi # NULL

\* some track has an iterator, and an event scheduled
LiveTrack ==
    \E t \in 0 .. (num_tracks - 1) :
        track_iters[t] # NULL /\ track_next_event_us[t] # NoEventTime

\* C18: when a song was started with loop = true and every track is
\* exhausted, all track iterators are restarted, the clock is reset to 0 and
\* each track's first event is scheduled again, so the song's events are
\* processed again: a looping song with at least one event always has a
\* track with an event to come, and goes on processing MIDI events.
LoopingSongRestarts == LoopingSong => LiveTrack

(***************************************************************************)
(* The end of a song that does not loop                                    *)
(***************************************************************************)
\* every track of the song loaded has been retired
AllTracksExhausted ==
    /\ current_midi # NULL
    /\ track_iters # NullArray
    /\ \A t \in 0 .. (num_tracks - 1) : track_iters[t] = NULL

\* the step is a call of MusicGenerator
GeneratorCalled == music_log'[1].e = "MusicGenerator"

\* a song that does not loop and has no track left is not playing
EndedSongIsStopped ==
    (AllTracksExhausted /\ ~music_looping) => (~music_playing /\ ~I_Music_IsPlaying)

\* a buffer asked for while no song plays is all zeros, and only a PlayMIDI
\* that loaded its file makes a song play
SilentUntilPlayMIDI ==
    /\ (GeneratorCalled /\ ~music_playing)
           => /\ ~music_playing'
              /\ Len(music_buffer') = max_sample_count
              /\ \A i \in 1 .. Len(music_buffer') : music_buffer'[i] = << 0, 0 >>
    /\ (~music_playing /\ music_playing')
           => music_log'[1].e = "PlayMIDI" /\ music_log'[1].a = 1

\* C19: when a song was started with loop = false and every track is
\* exhausted, music_playing is false and I_Music_IsPlaying returns false,
\* and every later buffer MusicGenerator produces is all zeros until the
\* next successful PlayMIDI.
EndedSongIsSilent == []EndedSongIsStopped /\ [][SilentUntilPlayMIDI]_vars

\* a song that did not loop has ended with a note still struck, and the
\* generator has written a silent buffer since
EndedSongWitness ==
    /\ AllTracksExhausted /\ ~music_looping /\ ~music_playing
    /\ \E i \in OplVoices : opl_voices[i].active
    /\ music_log = << Ev("MusicGenerator", 0 - 1, 0, 0) >>
    /\ Len(music_buffer) = max_sample_count
    /\ \A i \in 1 .. Len(music_buffer) : music_buffer[i] = << 0, 0 >>

(***************************************************************************)
(* One call of MusicGenerator                                              *)
(***************************************************************************)
\* the log entries of the chunks the call synthesised
Chunks(lg) == { i \in 1 .. Len(lg) : lg[i].e = "generate" }

\* the chunks tile the buffer: each starts where the one before it ended,
\* the first at frame 0, and the last ends at the buffer's end
ChunksTile(lg, frames) ==
    /\ \A i \in Chunks(lg) :
          LET before == { j \in Chunks(lg) : j < i }
          IN  IF before = {} THEN lg[i].b = 0
              ELSE \E j \in before :
                      /\ \A k \in before : k <= j
                      /\ lg[i].b = lg[j].b + lg[j].a
    /\ \E i \in Chunks(lg) : lg[i].b + lg[i].a = frames

\* the call that played left its loop, processed at most 200 events in at
\* most one pass per frame and two per event and track, and wrote every
\* chunk inside the buffer
GeneratorCallBounded(lg, frames) ==
    /\ lg[Len(lg)].e = "return"
    /\ lg[Len(lg)].ch = 1
    /\ lg[Len(lg)].a <= MAX_EVENTS_PER_BUFFER
    /\ lg[Len(lg)].b <= frames + 2 * (MAX_EVENTS_PER_BUFFER + num_tracks) + 1
    /\ \A i \in Chunks(lg) : lg[i].a >= 1 /\ lg[i].b + lg[i].a <= frames
    /\ ChunksTile(lg, frames)
    /\ \A i \in 1 .. Len(lg) :
          lg[i].e = "cap" => \A j \in (i + 1) .. (Len(lg) - 1) : lg[j].e = "generate"

GeneratorFillsBuffer ==
    GeneratorCalled
        => /\ Len(music_buffer') = max_sample_count
           /\ music_log'[1].a = 1 => GeneratorCallBounded(music_log', max_sample_count)

\* C20: every call of MusicGenerator terminates and writes exactly
\* max_sample_count stereo frames, never fewer and never past the end of
\* the buffer, whatever the density of the MIDI events: at most 200 events
\* are processed per buffer and the rest of the buffer is then filled with
\* synthesised samples.
GeneratorTerminates == [][GeneratorFillsBuffer]_vars

\* a call stopped at its 200th event with the buffer unfilled, and filled
\* the whole buffer after that
EventCapWitness ==
    /\ Len(music_log) > 2
    /\ music_log[1].e = "MusicGenerator"
    /\ \E i \in 1 .. Len(music_log) :
          /\ music_log[i].e = "cap"
          /\ music_log[i].a < max_sample_count
          /\ music_log[i].b = MAX_EVENTS_PER_BUFFER
    /\ Len(music_buffer) = max_sample_count

(***************************************************************************)
(* The states of a song                                                    *)
(***************************************************************************)
\* the state of the music: what music_playing and music_paused say
SongState(playing, paused) ==
    IF ~playing /\ ~paused THEN "Stopped"
    ELSE IF playing /\ ~paused THEN "Playing"
    ELSE IF playing /\ paused THEN "Paused"
    ELSE "PausedWhileStopped"

\* the operation of the step, by the first entry of its log
MusicCall(e) == music_log'[1].e = e

\* the moves of the state machine, and the operations that make them
SongMoves ==
    LET from == SongState(music_playing, music_paused)
        to == SongState(music_playing', music_paused')
    IN  \/ from = to
        \/ from = "Stopped" /\ to = "Playing" /\ MusicCall("PlayMIDI")
        \/ from = "Playing" /\ to = "Paused" /\ MusicCall("Pause")
        \/ from = "Paused" /\ to = "Playing" /\ (MusicCall("Resume") \/ MusicCall("PlayMIDI"))
        \/ from = "Playing" /\ to = "Stopped"
              /\ (MusicCall("Stop") \/ MusicCall("PlayMIDI") \/ MusicCall("MusicGenerator")
                     \/ MusicCall("Shutdown"))
        \/ from = "Paused" /\ to = "Stopped"
              /\ (MusicCall("Stop") \/ MusicCall("PlayMIDI") \/ MusicCall("Shutdown"))

\* what each operation does to the state
SongOperations ==
    /\ I_Music_Pause
          => /\ music_playing' = music_playing
             /\ music_paused' = IF music_playing THEN TRUE ELSE music_paused
    /\ I_Music_Resume
          => /\ music_playing' = music_playing
             /\ ~music_paused'
             /\ SongState(music_playing, music_paused) = "Paused"
                   => SongState(music_playing', music_paused') = "Playing"
    /\ I_Music_Stop => SongState(music_playing', music_paused') = "Stopped"
    /\ I_Music_Shutdown => SongState(music_playing', music_paused') = "Stopped"

\* music_paused is never true while music_playing is false, and
\* I_Music_IsPlaying is true exactly in the state Playing
SongStateSound ==
    /\ SongState(music_playing, music_paused) # "PausedWhileStopped"
    /\ I_Music_IsPlaying <=> SongState(music_playing, music_paused) = "Playing"

\* C21: the music state only moves along Stopped -> Playing ->
\* {Paused <-> Playing} -> Stopped: I_Music_Pause has an effect only while a
\* song is playing, I_Music_Resume returns a paused song to playing and does
\* not start a stopped one, I_Music_Stop reaches Stopped from every state,
\* music_paused is never true while music_playing is false, and
\* I_Music_IsPlaying is true exactly when a song is playing and not paused.
SongStateMachine == []SongStateSound /\ [][SongMoves /\ SongOperations]_vars

\* a song was paused and resumed, and goes on playing with its tracks
SongResumedWitness ==
    /\ music_log = << Ev("Resume", 0 - 1, 0, 0) >>
    /\ music_playing /\ ~music_paused /\ I_Music_IsPlaying
    /\ current_time_us > 0
    /\ LiveTrack

(***************************************************************************)
(* SpecLoad: songs are loaded, and fail to load, while the sound driver is *)
(* brought up and shut down                                                *)
(***************************************************************************)
NextLoad ==
    \/ PlaySong
    \/ GenerateMusic
    \/ I_Music_Stop
    \/ InitSong
    \/ I_Music_Shutdown
    \/ I_PicoSound_Shutdown
    \/ \E failure \in {"none"} \cup InitFailures : I_PicoSound_Init(failure)

InitLoad == InitWith({1}, {PoolSize}, {LongPass}, {0})

SpecLoad == InitLoad /\ [][NextLoad]_vars

\* the statics a failed I_Music_PlayMIDI leaves: no song plays, and no track
\* iterator, timing array or MIDI file is referenced
LeftStopped ==
    /\ ~music_playing' /\ ~music_paused'
    /\ current_midi' = NULL
    /\ track_iters' = NullArray
    /\ track_next_event_us' = NullArray
    /\ running_tracks' = 0

\* the call returned false
ReturnedFalse == music_log'[1] = Ev("PlayMIDI", 0 - 1, 0, 0)

\* C22 as stated: I_Music_PlayMIDI always stops the current song first; if
\* it then fails at any step (open, file size, buffer allocation, read,
\* temp-file write, MIDI parse, iterator or timing-array allocation) it
\* returns false and the music is left Stopped: music_playing is false, no
\* music generator is registered with the mixer, and no track iterators or
\* MIDI file remain referenced.
FailedLoadUnregisters ==
    [][\A failure \in LoadFailures \cup AllocFailures :
          I_Music_PlayMIDI(1, FALSE, failure)
              => ReturnedFalse /\ LeftStopped /\ music_generator' = NoGenerator]_vars

\* C22, amended: a failed I_Music_PlayMIDI returns false and leaves the
\* music Stopped with no track iterators or MIDI file referenced; the
\* generator is taken from the mixer if the sound driver is initialized, and
\* stays as it was if it is not.
FailedLoadLeavesStopped ==
    [][\A failure \in LoadFailures \cup AllocFailures :
          I_Music_PlayMIDI(1, FALSE, failure)
              => /\ ReturnedFalse /\ LeftStopped
                 /\ music_generator' = IF sound_initialized THEN NoGenerator ELSE music_generator]_vars

\* while the module is not initialised no song is loaded, so an
\* I_Music_PlayMIDI that returns false because I_Music_Init finds no
\* emulator, before it stops anything, leaves the music Stopped as well
UninitializedIsStopped ==
    ~music_initialized
        => /\ ~music_playing /\ ~music_paused /\ opl_emu = NULL
           /\ current_midi = NULL /\ track_iters = NullArray
           /\ track_next_event_us = NullArray /\ running_tracks = 0

\* a load failed while a song was playing with a note struck: the song is
\* stopped, its voices are released and the mixer has no generator
FailedLoadWitness ==
    /\ music_log # << >> /\ music_log[1] = Ev("PlayMIDI", 0 - 1, 0, 0)
    /\ \E i \in 2 .. Len(music_log) : music_log[i].e = "NoteOff"
    /\ sound_initialized /\ music_generator = NoGenerator
    /\ ~music_playing /\ current_midi = NULL /\ track_iters = NullArray

(***************************************************************************)
(* SpecParse: parse_voc and parse_wav are applied to buffers built from    *)
(* their fields; log holds the fields, the buffer and the result           *)
(***************************************************************************)
MaxPayload == 3

\* a chunk of a RIFF file, padded to a word boundary
Chunk(id, bytes) ==
    id \o LE32(Len(bytes)) \o bytes \o (IF Len(bytes) % 2 = 1 THEN << 0 >> ELSE << >>)
Riff(body) == << 82, 73, 70, 70 >> \o LE32(4 + Len(body)) \o << 87, 65, 86, 69 >> \o body
FmtId == << 102, 109, 116, 32 >>
DataId == << 100, 97, 116, 97 >>
ListId == << 76, 73, 83, 84 >>
FmtBytes(tag, channels, rate, bits) ==
    LE16(tag) \o LE16(channels) \o LE32(rate) \o LE32(rate * channels * (bits \div 8))
        \o LE16(channels * (bits \div 8)) \o LE16(bits)

WavLayouts == {"plain", "extended", "list", "short", "data first"}

\* a WAV file of one of the layouts: fmt then data; a fmt chunk of 18 bytes;
\* a LIST chunk of odd size before fmt; a fmt chunk of 14 bytes; data
\* before fmt
WavWith(layout, tag, channels, rate, bits, payload) ==
    LET fmt == FmtBytes(tag, channels, rate, bits)
    IN  IF layout = "plain" THEN Riff(Chunk(FmtId, fmt) \o Chunk(DataId, payload))
        ELSE IF layout = "extended"
        THEN Riff(Chunk(FmtId, fmt \o << 0, 0 >>) \o Chunk(DataId, payload))
        ELSE IF layout = "list"
        THEN Riff(Chunk(ListId, << 73, 78, 70 >>) \o Chunk(FmtId, fmt) \o Chunk(DataId, payload))
        ELSE IF layout = "short"
        THEN Riff(Chunk(FmtId, SubSeq(fmt, 1, 14)) \o Chunk(DataId, payload \o << 0, 0 >>))
        ELSE Riff(Chunk(DataId, payload) \o Chunk(FmtId, fmt))

\* where the data chunk's bytes start in a file of the layout
WavDataAt(layout) ==
    IF layout = "plain" THEN 44
    ELSE IF layout = "extended" THEN 46
    ELSE IF layout = "list" THEN 56
    ELSE IF layout = "short" THEN 42
    ELSE 20

\* blocks that carry no sound, put before the sound block of a VOC file:
\* none, a text block (type 5), a marker block (type 4) and a text block
VocLeads == << << >>,
               << 5 >> \o LE24(3) \o << 72, 105, 0 >>,
               << 4 >> \o LE24(2) \o << 1, 0 >> \o << 5 >> \o LE24(1) \o << 0 >> >>

\* a VOC file whose first sound block is of type 9
VocWith(lead, rate, bits, channels, codec, payload) ==
    LET file == VocType9(rate, bits, channels, codec, payload)
    IN  SubSeq(file, 1, 26) \o VocLeads[lead] \o SubSeq(file, 27, Len(file))

VocRates == {8000, 11025, 22050, 44100, 96000}

InitParse == InitWith({1, 2}, {PoolSize}, {SmallPass}, {0})

\* parse_voc(data, length, ...) on a file with a type 9 block, once
ParseVoc ==
    \E lead \in 1 .. Len(VocLeads), rate \in VocRates, bits \in {8, 16}, channels \in {1, 2},
       codec \in {0, 1, 4}, n \in 0 .. MaxPayload :
        LET d == VocWith(lead, rate, bits, channels, codec, Pattern(n))
        IN  /\ log = << >>
            /\ log' = << [e |-> "parse_voc", ch |-> 0 - 1,
                          a |-> [lead |-> lead, rate |-> rate, bits |-> bits,
                                 channels |-> channels, codec |-> codec, n |-> n, d |-> d],
                          b |-> parse_voc(rev, d, Len(d))] >>
            /\ UNCHANGED << Music, ctx, rev, NUM_SOUND_CHANNELS, sound_initialized, voices,
                            next_handle, pending_callbacks, pending_callback_head,
                            pending_callback_tail, processing_callbacks, sound_callback, pc,
                            processed, cb_val, master_volume, reverse_stereo, samples,
                            max_sample_count, occupant, emitted, sounds, invoked >>

\* parse_wav(data, length, ...) on a file of one of the layouts, once
ParseWav ==
    \E layout \in WavLayouts, tag \in {1, 2}, channels \in {1, 2}, rate \in {11025, 22050},
       bits \in {8, 16}, n \in 0 .. MaxPayload :
        LET d == WavWith(layout, tag, channels, rate, bits, Pattern(2 * n))
        IN  /\ log = << >>
            /\ log' = << [e |-> "parse_wav", ch |-> 0 - 1,
                          a |-> [layout |-> layout, tag |-> tag, rate |-> rate, bits |-> bits,
                                 channels |-> channels, n |-> 2 * n, d |-> d],
                          b |-> parse_wav(d, Len(d))] >>
            /\ UNCHANGED << Music, ctx, rev, NUM_SOUND_CHANNELS, sound_initialized, voices,
                            next_handle, pending_callbacks, pending_callback_head,
                            pending_callback_tail, processing_callbacks, sound_callback, pc,
                            processed, cb_val, master_volume, reverse_stereo, samples,
                            max_sample_count, occupant, emitted, sounds, invoked >>

NextParse == ParseVoc \/ ParseWav

SpecParse == InitParse /\ [][NextParse]_vars

\* the call logged, its fields and its result
Parsed(e) == log # << >> /\ log[1].e = e

\* the bytes the result points at
SampleBytes(d, r) == SubSeq(d, r.sample_data + 1, r.sample_data + r.sample_length)

\* C23: for a well-formed VOC buffer whose first sound block is type 9 with
\* rate R, bit depth B, one channel and codec 0, parse_voc succeeds with
\* sample_rate = R, is_16bit = (B = 16), codec = PCM, sample data starting
\* 12 bytes into the block payload and sample length = block size - 12; for
\* R = 11025 and B = 8 it yields sample_rate 11025 and is_16bit false.
VocType9Parsed ==
    (Parsed("parse_voc") /\ log[1].a.channels = 1 /\ log[1].a.codec = 0)
        => LET in == log[1].a
               r == log[1].b
               block == 26 + Len(VocLeads[in.lead])
               block_size == in.n + 12
           IN  /\ r.ok
               /\ r.sample_rate = in.rate
               /\ r.is_16bit = (in.bits = 16)
               /\ r.codec = 0
               /\ r.sample_data = block + 4 + 12
               /\ r.sample_length = block_size - 12
               /\ SampleBytes(in.d, r) = Pattern(in.n)
               /\ (in.rate = 11025 /\ in.bits = 8) => (r.sample_rate = 11025 /\ ~r.is_16bit)

\* the file with rate 11025, 8 bits, one channel, codec 0 after two blocks
\* without sound has been parsed
VocType9Witness ==
    /\ Parsed("parse_voc")
    /\ log[1].a.lead = 3 /\ log[1].a.rate = 11025 /\ log[1].a.bits = 8
    /\ log[1].a.channels = 1 /\ log[1].a.codec = 0 /\ log[1].a.n = MaxPayload
    /\ log[1].b.ok /\ log[1].b.sample_rate = 11025 /\ ~log[1].b.is_16bit
    /\ log[1].b.sample_data = 26 + 11 + 16

\* C24: for a RIFF/WAVE buffer of at least 44 bytes with a 'fmt ' chunk of
\* PCM tag 1 followed by a 'data' chunk, parse_wav succeeds with sample_rate
\* equal to the fmt rate and is_16bit = is_signed = (bits per sample = 16);
\* for mono, 16-bit, 22050 Hz it yields is_16bit true, is_signed true,
\* sample_rate 22050.  It fails when the format tag is not 1, when the fmt
\* chunk is shorter than 16 bytes, or when 'data' precedes 'fmt '.
WavParsed ==
    Parsed("parse_wav")
        => LET in == log[1].a
               r == log[1].b
           IN  /\ (Len(in.d) >= 44 /\ in.tag = 1 /\ in.layout \in {"plain", "extended", "list"})
                     => /\ r.ok
                        /\ r.sample_rate = in.rate
                        /\ r.is_16bit = (in.bits = 16)
                        /\ r.is_signed = (in.bits = 16)
                        /\ r.sample_data = WavDataAt(in.layout)
                        /\ SampleBytes(in.d, r) = Pattern(in.n)
               /\ (in.tag # 1 \/ in.layout \in {"short", "data first"}) => ~r.ok

\* the minimal 44-byte header, mono, 16-bit, 22050 Hz, has been parsed, and
\* so have the three files that fail
WavWitness ==
    /\ Parsed("parse_wav")
    /\ log[1].a.layout = "plain" /\ log[1].a.tag = 1 /\ log[1].a.channels = 1
    /\ log[1].a.rate = 22050 /\ log[1].a.bits = 16 /\ log[1].a.n = 0
    /\ Len(log[1].a.d) = 44
    /\ log[1].b.ok /\ log[1].b.is_16bit /\ log[1].b.is_signed
    /\ log[1].b.sample_rate = 22050
    /\ ~parse_wav(WavWith("short", 1, 1, 22050, 16, Pattern(2)), 46).ok
    /\ ~parse_wav(WavWith("data first", 1, 1, 22050, 16, Pattern(2)), 46).ok
    /\ ~parse_wav(WavWith("plain", 2, 1, 22050, 16, Pattern(2)), 46).ok

(***************************************************************************)
(* SpecLoop: looping sounds, with the loop range of the caller, are mixed  *)
(* one sample per pass                                                     *)
(***************************************************************************)
InitLoop == InitWith({1, 2}, {PoolSize}, {SmallPass}, {0})

\* << block, loopstart, loopend >> of the looping raw sounds
LoopRanges == { << 3, 0, 3 >>, << 3, 1, 2 >>, << 4, 0, 258 >>, << 4, 0, 256 >>, << 4, 2, 258 >> }

PlayRawLoop ==
    /\ sounds = << >>
    /\ \E rg \in LoopRanges, rate \in {PICO_SOUND_SAMPLE_FREQ, FastRate} :
          I_PicoSound_PlayRaw(rg[1], Len(Mem[rg[1]]), rate, 0, 32, 0, 0, 1, 7, TRUE,
                              rg[2], rg[3])

PlayVocLoop ==
    /\ sounds = << >>
    /\ \E m \in {6, 7} :
          I_PicoSound_PlayVOC(m, Len(Mem[m]), 0, 0, 32, 0, 0, 1, 7, TRUE, 0,
                              parse_voc(rev, Mem[m], Len(Mem[m])).sample_length)

PlayWavLoop ==
    /\ sounds = << >>
    /\ I_PicoSound_PlayWAV(8, Len(Mem[8]), 0, 32, 0, 0, 1, 7, TRUE, 0,
                           parse_wav(Mem[8], Len(Mem[8])).sample_length)

NextLoop ==
    \/ PlayRawLoop
    \/ PlayVocLoop
    \/ PlayWavLoop
    \/ I_PicoSound_Update(1)
    \/ CallbackReturn

SpecLoop == InitLoop /\ [][NextLoop]_vars

\* the refills of voice ch the step made
RefillsOf(ch) == { k \in 1 .. Len(log') : log'[k].e = "refill" /\ log'[k].ch = ch }

\* voice v at loop_start with its decoder in the state a play call gives it
AtLoopStart(r, v) ==
    IF ~v.is_adpcm THEN [v EXCEPT !.data = v.loop_start]
    ELSE IF r = 1 THEN [v EXCEPT !.data = v.loop_start, !.adpcm_pred = 128, !.adpcm_step = 0 - 1]
    ELSE [v EXCEPT !.data = v.loop_start, !.adpcm_pred = 0, !.adpcm_index = 0]

\* the cursor of the looping voice has reached its loop-end
AtLoopEnd(v) ==
    /\ v.active /\ v.looping
    /\ v.loop_start # NULL /\ v.loop_end # NULL
    /\ v.data >= v.loop_end

\* the one refill of the step decoded voice ch from its loop-start
RefilledFromLoopStart(ch) ==
    LET w == DecodeSamples(rev, AtLoopStart(rev, voices[ch]))
    IN  /\ voices'[ch].data = w.data
        /\ Decoded(voices'[ch]) = Decoded(w)
        /\ voices'[ch].buffer_size = w.buffer_size

\* C25: when a refill of a looping voice finds that the source cursor has
\* reached the voice's loop-end, the cursor is set exactly to the voice's
\* loop-start (for PlayRaw: the loop-start and loop-end given by the
\* caller), and for an ADPCM voice the decoder state is reset to its initial
\* state so that each loop iteration decodes the same samples as the first
\* pass from loop-start.
RefillRewindsAtLoopEnd ==
    [][\A ch \in Slots :
          (AtLoopEnd(voices[ch]) /\ Cardinality(RefillsOf(ch)) = 1)
              => RefilledFromLoopStart(ch)]_vars

\* the same of the voices whose loop-end is the end of the source: what the
\* refill does
RefillRewindsAtSourceEnd ==
    [][\A ch \in Slots :
          (AtLoopEnd(voices[ch]) /\ voices[ch].data >= voices[ch].data_end
              /\ Cardinality(RefillsOf(ch)) = 1)
              => RefilledFromLoopStart(ch)]_vars

(***************************************************************************)
(* SpecCap: the first revision mixes tiny looping sounds, which need a     *)
(* refill for every sample or two, next to other sounds                    *)
(***************************************************************************)
MaxPlaysCap == 2

InitCap == InitWith({1}, {PoolSize}, {BigPass}, {0})

\* << block, looping >> of the raw sounds; the k-th play passes token 6 + k
CapRequests == { << 1, TRUE >>, << 2, TRUE >>, << 4, FALSE >>, << 4, TRUE >> }

PlayCap ==
    /\ Len(sounds) < MaxPlaysCap
    /\ \E rq \in CapRequests :
          I_PicoSound_PlayRaw(rq[1], Len(Mem[rq[1]]), PICO_SOUND_SAMPLE_FREQ, 0, 32, 0, 0, 1,
                              7 + Len(sounds), rq[2],
                              IF rq[2] THEN 0 ELSE NULL, IF rq[2] THEN Len(Mem[rq[1]]) ELSE NULL)

NextCap ==
    \/ PlayCap
    \/ I_PicoSound_Update(1)
    \/ CallbackReturn

SpecCap == InitCap /\ [][NextCap]_vars

\* the step is an I_PicoSound_Update, which mixes one buffer
MixedOneBuffer == log' # << >> /\ log'[1].e = "Update"

\* voice ch met the limit at position k of the pass: it had 20 refills, is
\* inactive, is not touched again in the pass, its token is not queued, and
\* the voices after it are mixed
CappedAt(ch, k) ==
    /\ Cardinality(RefillsOf(ch)) = MAX_DECOMPRESS_CALLS
    /\ ~voices'[ch].active
    /\ \A j \in (k + 1) .. Len(log') :
          /\ log'[j].e \in {"read", "wrap", "refill", "finish", "cap"} => log'[j].ch # ch
          /\ log'[j].e = "enqueue" => log'[j].a # voices[ch].callback_val
    /\ \A j \in 1 .. k : log'[j].e = "enqueue" => log'[j].a # voices[ch].callback_val
    /\ \A c2 \in Slots :
          (c2 > ch /\ voices[c2].active /\ voices[c2].buffer_size > 0)
              => \E j \in (k + 1) .. Len(log') : log'[j].e = "read" /\ log'[j].ch = c2

RefillsCapped ==
    (MixedOneBuffer /\ rev = 1)
        => \A ch \in Slots :
              /\ Cardinality(RefillsOf(ch)) <= MAX_DECOMPRESS_CALLS
              /\ \A k \in 1 .. Len(log') :
                    (log'[k].e = "cap" /\ log'[k].ch = ch) => CappedAt(ch, k)

\* C26: in the first driver revision, within one mix_audio_buffer call
\* decompress_buffer is invoked at most 20 times for any single voice; a
\* voice that would need a 21st refill in the same pass is deactivated for
\* the rest of the pass and no completion callback is enqueued for it, while
\* the remaining voices are still mixed.
RefillsCappedPerPass == [][RefillsCapped]_vars

\* the one-sample looping sound in slot 0 met the limit, the sound in slot 1
\* was mixed after that, and no token waits
CappedWitness ==
    /\ rev = 1 /\ log # << >> /\ log[1].e = "Update"
    /\ \E k \in 1 .. Len(log) :
          /\ log[k].e = "cap" /\ log[k].ch = 0
          /\ \E j \in (k + 1) .. Len(log) : log[j].e = "read" /\ log[j].ch = 1
    /\ Cardinality({ k \in 1 .. Len(log) : log[k].e = "refill" /\ log[k].ch = 0 })
          = MAX_DECOMPRESS_CALLS
    /\ ~voices[0].active /\ voices[0].callback_val = 7
    /\ pending_callback_tail = pending_callback_head
    /\ invoked = << >>

(***************************************************************************)
(* SpecRefill: decompress_buffer is applied to a PCM voice of every        *)
(* format, with its cursor at the start, inside and at the end of the      *)
(* source; log holds the voice before the call                             *)
(***************************************************************************)
MaxCursor == 3

\* << is_16bit, is_signed >> of the PCM formats
PcmFormats == { << FALSE, FALSE >>, << FALSE, TRUE >>, << TRUE, TRUE >> }

\* the cursors tried in a source of the given length
Cursors(length) ==
    { p \in 0 .. length : p <= MaxCursor \/ p >= length - MaxCursor
                          \/ p \in {length - VOICE_BUFFER_SAMPLES, length - 2 * VOICE_BUFFER_SAMPLES} }

InitRefill == InitWith({1, 2}, {PoolSize}, {SmallPass}, {0})

\* decompress_buffer(&voices[0]) of a PCM voice that does not loop, once
RefillPcm ==
    \E m \in {3, 4, 12}, format \in PcmFormats, short \in {0, 1} :
      \E data \in Cursors(Len(Mem[m]) - short) :
        LET v == [ZeroVoice EXCEPT !.mem = m, !.data = data,
                                   !.data_end = Len(Mem[m]) - short,
                                   !.is_16bit = format[1], !.is_signed = format[2],
                                   !.active = TRUE]
        IN  /\ log = << >>
            /\ voices' = [voices EXCEPT ![0] = decompress_buffer(rev, v)]
            /\ log' = << [e |-> "decompress_buffer", ch |-> 0, a |-> v, b |-> 0] >>
            /\ UNCHANGED << Music, ctx, rev, NUM_SOUND_CHANNELS, sound_initialized,
                            next_handle, pending_callbacks, pending_callback_head,
                            pending_callback_tail, processing_callbacks, sound_callback, pc,
                            processed, cb_val, master_volume, reverse_stereo, samples,
                            max_sample_count, occupant, emitted, sounds, invoked >>

NextRefill == RefillPcm

SpecRefill == InitRefill /\ [][NextRefill]_vars

\* the sample at index i of the source of voice v, from its cursor on
PcmSample(v, i) ==
    IF v.is_16bit THEN S8(ByteAt(v.mem, v.data + 2 * i + 1))
    ELSE IF v.is_signed THEN S8(ByteAt(v.mem, v.data + i))
    ELSE ByteAt(v.mem, v.data + i) - 128

\* C27: a PCM refill copies min(256, samples remaining before the source
\* end) samples into the local buffer and sets buffer_size to that count: a
\* 16-bit sample becomes its high byte (arithmetic shift right by 8), a
\* signed 8-bit sample is copied unchanged, an unsigned 8-bit sample becomes
\* value - 128; the source cursor advances by exactly the bytes consumed (2
\* per 16-bit sample, 1 otherwise) and never moves past the source end.
PcmRefillCopies ==
    Parsed("decompress_buffer")
        => LET v == log[1].a
               w == voices[0]
               width == IF v.is_16bit THEN 2 ELSE 1
               remaining == (v.data_end - v.data) \div width
               count == IF remaining > VOICE_BUFFER_SAMPLES THEN VOICE_BUFFER_SAMPLES
                        ELSE remaining
           IN  /\ w.buffer_size = count
               /\ Len(Decoded(w)) = count
               /\ \A i \in 0 .. (count - 1) :
                     w.buffer[i + 1] = PcmSample(v, i) /\ w.buffer[i + 1] \in -128 .. 127
               /\ w.data = v.data + count * width
               /\ w.data <= v.data_end

\* a 16-bit voice with more than 256 samples left, one of them negative, was
\* refilled with 256 samples and its cursor moved on by 512 bytes
PcmRefillWitness ==
    /\ Parsed("decompress_buffer")
    /\ log[1].a.is_16bit /\ log[1].a.data = 1
    /\ voices[0].buffer_size = VOICE_BUFFER_SAMPLES
    /\ voices[0].data = 1 + 2 * VOICE_BUFFER_SAMPLES
    /\ voices[0].data < voices[0].data_end
    /\ \E i \in 1 .. VOICE_BUFFER_SAMPLES : voices[0].buffer[i] < 0

(***************************************************************************)
(* SpecAlloc: AllocateVoice is applied to OPL voices busy and free, with   *)
(* and without the timbre wanted, owned by the channel, by the percussion  *)
(* channel and by others; music_log holds the voices before the call       *)
(***************************************************************************)
\* the voices that are inactive, the voices programmed with the timbre
\* wanted, the voices of the calling channel and those of channel 9
FreeSets == { {}, {0}, {4}, {8}, {2, 4}, {4, 8}, OplVoices }
TimbreSets == { {}, {8}, {2, 8}, {4}, {0, 1} }
OwnSets == { {}, {0}, {3}, {3, 6} }
PercSets == { {}, {1}, {1, 5}, {3} }

AllocKey == 60
AllocProgram == 5

InitAlloc == InitWith({1}, {PoolSize}, {SmallPass}, {0})

\* AllocateVoice(channel, AllocKey) with the voices in one of these states, once
AllocateOnce ==
    \E free \in FreeSets, timbred \in TimbreSets, own \in OwnSets, perc \in PercSets, channel \in {0, 9} :
        LET target == IF channel = 9 THEN AllocKey + 128 ELSE AllocProgram
            vs == [i \in OplVoices |->
                      [active |-> i \notin free,
                       channel |-> IF i \in own THEN channel ELSE IF i \in perc THEN 9 ELSE 3,
                       key |-> 40 + i, velocity |-> 100,
                       timbre |-> IF i \in timbred THEN target ELSE 0 - 1,
                       status |-> IF i \notin free THEN NOTE_ON ELSE 0]]
            chs == [midi_channels EXCEPT ![0].Timbre = AllocProgram]
            voice == AllocateVoice(vs, chs, channel, AllocKey)
            g == AL_NoteOff([Gen EXCEPT !.v = vs, !.ch = chs], voice)
        IN  /\ music_log = << >>
            /\ opl_voices' = g.v
            /\ midi_channels' = chs
            /\ music_log' = << [e |-> "AllocateVoice", ch |-> channel,
                                a |-> [vs |-> vs, target |-> target], b |-> voice] >> \o g.lg
            /\ UNCHANGED << Sound, music_playing, music_paused, music_looping, current_midi,
                            num_tracks, running_tracks, track_iters, track_next_event_us,
                            current_time_us, us_per_beat, timbre_loaded,
                            music_initialized, opl_emu, ticks_per_beat, music_generator,
                            music_buffer >>

NextAlloc == AllocateOnce

SpecAlloc == InitAlloc /\ [][NextAlloc]_vars

\* AllocateVoice has been called
Allocated == music_log # << >> /\ music_log[1].e = "AllocateVoice"

\* the order of preference: the sets of voices to choose from, best first
Preferences(vs, channel, target) ==
    << { i \in OplVoices : ~vs[i].active /\ vs[i].timbre = target },
       { i \in OplVoices : ~vs[i].active },
       { i \in OplVoices : vs[i].channel = channel },
       { i \in OplVoices : vs[i].channel = 9 },
       {0} >>

\* C28: AllocateVoice(channel, key) returns, in this order of preference:
\* the lowest-index inactive OPL voice whose programmed timbre equals the
\* target timbre (key+128 on channel 9, else the channel's program); else
\* the lowest-index inactive voice; else the lowest-index voice owned by the
\* same MIDI channel; else the lowest-index voice on channel 9; else voice
\* 0.  A voice is keyed off by AllocateVoice only in the three steal cases,
\* and the result is always in 0..8.
AllocationOrder ==
    Allocated
        => LET vs == music_log[1].a.vs
               voice == music_log[1].b
               pref == Preferences(vs, music_log[1].ch, music_log[1].a.target)
               best == Least({ n \in 1 .. 5 : pref[n] # {} })
           IN  /\ voice \in 0 .. 8
               /\ voice = Least(pref[best])
               /\ best <= 2 => opl_voices = vs /\ Len(music_log) = 1
               /\ best > 2 => /\ opl_voices = [vs EXCEPT ![voice].active = FALSE,
                                                          ![voice].status = 0]
                              /\ music_log[2].e = "NoteOff" /\ music_log[2].ch = voice

\* with every voice active and none on the caller's channel, the first
\* voice of channel 9 was stolen and keyed off
AllocationWitness ==
    /\ Allocated /\ music_log[1].ch = 0 /\ music_log[1].b = 3
    /\ \A i \in OplVoices : music_log[1].a.vs[i].active
    /\ music_log[1].a.vs[3].channel = 9
    /\ ~opl_voices[3].active
    /\ \A i \in OplVoices \ {3} : opl_voices[i].active

(***************************************************************************)
(* Events wait for the virtual clock                                       *)
(***************************************************************************)
\* the entries of the sequencer's history that carry the clock
ClockEvents == { "generate", "event", "schedule", "wait", "restart" }
Clocked(lg) == SelectSeq(lg, LAMBDA x : x.e \in ClockEvents)

\* the event at i of the history was due, and its track was then retired or
\* scheduled no earlier than the clock
ProcessedWhenDue(lg, i) ==
    /\ lg[i].due <= lg[i].time
    /\ \E j \in (i + 1) .. Len(lg) :
          /\ lg[j].ch = lg[i].ch
          /\ \/ lg[j].e = "retire"
             \/ lg[j].e = "schedule" /\ lg[j].time = lg[i].time /\ lg[j].b >= lg[j].time
          /\ \A k \in (i + 1) .. (j - 1) : lg[k].e \notin ClockEvents \cup { "retire" }

\* the clock from the start of a call of MusicGenerator to its end goes
\* down only where the song restarts, and there to 0
ClockSteady ==
    LET s == Clocked(music_log')
    IN  /\ s = << >> => current_time_us' = current_time_us
        /\ s # << >> => /\ s[1].time = current_time_us
                        /\ s[Len(s)].e # "restart" => current_time_us' >= s[Len(s)].time
                        /\ s[Len(s)].e = "restart" => current_time_us' = 0
        /\ \A i \in 1 .. (Len(s) - 1) :
              IF s[i].e = "restart" THEN s[i + 1].time = 0 ELSE s[i + 1].time >= s[i].time

\* what a call of MusicGenerator keeps to
EventsOnTime ==
    MusicCall("MusicGenerator")
        => /\ \A i \in 1 .. Len(music_log') :
                 music_log'[i].e = "event" => ProcessedWhenDue(music_log', i)
           /\ \A t \in 0 .. (num_tracks - 1) :
                 (track_iters'[t] # NULL /\ track_next_event_us'[t] # track_next_event_us[t])
                     => \E i \in 1 .. Len(music_log') :
                           /\ music_log'[i].e = "schedule" /\ music_log'[i].ch = t
                           /\ music_log'[i].b = track_next_event_us'[t]
           /\ ClockSteady

\* C29: No MIDI event is processed before the virtual clock has reached its
\* scheduled time: whenever MusicGenerator processes an event of track t,
\* track_next_event_us[t] <= current_time_us holds, and after processing the
\* track's next event is rescheduled at a time >= the current virtual clock;
\* the virtual clock never decreases while a song plays except for the reset
\* to 0 on loop restart.
EventsWaitForClock == [][EventsOnTime]_vars

\* a call processed an event after the clock had moved on, scheduled the
\* track's next event later than the clock, and restarted the song
EventsOnTimeWitness ==
    /\ music_log # << >> /\ music_log[1].e = "MusicGenerator"
    /\ \E i, j, k \in 1 .. Len(music_log) :
          /\ i < j
          /\ music_log[i].e = "event" /\ music_log[i].time > 0
          /\ music_log[j].e = "schedule" /\ music_log[j].ch = music_log[i].ch
          /\ music_log[j].b > music_log[j].time
          /\ music_log[k].e = "restart" /\ music_log[k].time > 0

(***************************************************************************)
(* SpecWriters: sounds with and without tokens are played, stolen, stopped *)
(* and panned while the game polls                                         *)
(***************************************************************************)
NextWriters ==
    \/ PlayPool
    \/ I_PicoSound_Update(1)
    \/ CallbackReturn
    \/ \E h \in HeldHandles : I_PicoSound_StopVoice(h)
    \/ I_PicoSound_StopAllVoices
    \/ \E h \in HeldHandles : I_PicoSound_SetPan(h, 0, 10, 20)

SpecWriters == InitPool /\ [][NextWriters]_vars

(***************************************************************************)
(* Who writes the callback queue                                           *)
(***************************************************************************)
\* the operation just done
Call(names) == log' # << >> /\ log'[1].e \in names

\* an entry was written or the tail moved; the head moved
QueueWritten ==
    pending_callbacks' # pending_callbacks \/ pending_callback_tail' # pending_callback_tail
HeadMoved == pending_callback_head' # pending_callback_head

\* the play just done took the slot of an active voice that had a token
PlayStole ==
    /\ Call(PlayCalls) /\ log'[1].ch >= 0
    /\ voices[log'[1].ch].active /\ voices[log'[1].ch].callback_val # 0

\* the queue after queue_callback(token) on the queue as it was
QueuedOne(token) ==
    IF (pending_callback_tail + 1) % MAX_PENDING_CALLBACKS # pending_callback_head
    THEN /\ pending_callbacks' = [pending_callbacks EXCEPT ![pending_callback_tail] = token]
         /\ pending_callback_tail' = (pending_callback_tail + 1) % MAX_PENDING_CALLBACKS
    ELSE ~QueueWritten

\* in a mix pass every entry is written where a voice is found finished
WrittenAtDetection ==
    Call({"Update"})
        => \A i \in 1 .. Len(log') :
              log'[i].e = "enqueue"
                  => /\ i < Len(log')
                     /\ log'[i + 1].e = "finish" /\ log'[i + 1].a = log'[i].a

\* C30 as stated: entries are added to the callback queue only by the mixer,
\* at the moment it detects that a voice has finished during a mix pass; no
\* other operation (play, stop, set-pan, drain) ever writes an entry or
\* moves the tail, and only the drain call moves the head.
QueueWrittenOnlyByMixer ==
    [][/\ QueueWritten => Call({"Update"})
       /\ WrittenAtDetection
       /\ HeadMoved => Call({"Update", "Return"})]_vars

\* C30: entries are added to the callback queue by the mixer, at the moment
\* it detects that a voice has finished during a mix pass, and by a play
\* call that takes the slot of an active voice with a non-zero token, which
\* queues that token; no other operation (stop, set-pan, drain) ever writes
\* an entry or moves the tail, and only the drain moves the head.
QueueWrittenByMixerAndSteal ==
    [][/\ QueueWritten => (Call({"Update"}) \/ PlayStole)
       /\ WrittenAtDetection
       /\ PlayStole => QueuedOne(voices[log'[1].ch].callback_val)
       /\ HeadMoved => Call({"Update", "Return"})]_vars

\* a play took the slot of an active voice and queued its token, and a
\* StopVoice that stopped a sound has left the queue holding an entry
QueueWritersWitness ==
    /\ log # << >> /\ log[1].e = "StopVoice" /\ log[1].ch >= 0
    /\ \E k \in 1 .. Len(sounds) : sounds[k].fate = "steal" /\ sounds[k].token # 0
    /\ \E k \in 1 .. Len(sounds) : sounds[k].fate = "stop"
    /\ pending_callback_tail # pending_callback_head

(***************************************************************************)
(* SpecRace: queue_callback runs in one context and                        *)
(* process_pending_callbacks in another, one read or write of the head,    *)
(* the tail or an entry at a time; log keeps what became of each token     *)
(***************************************************************************)
MaxRaceTokens == 4
RaceBacklog == 29

\* the token of the k-th call of queue_callback
RaceToken(k) == 200 + k

InitRace == InitWith({1}, {PoolSize}, {SmallPass}, {0, RaceBacklog})

\* what the steps of this specification leave alone
RaceFrame ==
    UNCHANGED << Music, rev, NUM_SOUND_CHANNELS, sound_initialized, voices, next_handle,
                 sound_callback, pc, master_volume, reverse_stereo, samples,
                 max_sample_count, occupant, emitted, sounds >>

\* a queue_callback that moves the tail before it writes the entry
queue_callback_tail_first == << "next_tail", "test", "index", "tail", "entry" >>

\* the reads and writes of queue_callback, in program order: the tail for
\* next_tail, the head for the test, the tail for the index, the entry, the
\* tail
queue_callback_accesses == << "next_tail", "test", "index", "entry", "tail" >>

\* the mixer's context calls queue_callback with the next token
QueueCallbackCalled ==
    /\ ctx.prog = << >> /\ ctx.sent < MaxRaceTokens
    /\ ctx' = [ctx EXCEPT !.prog = queue_callback_accesses, !.val = RaceToken(ctx.sent + 1),
                          !.sent = @ + 1]
    /\ UNCHANGED << pending_callbacks, pending_callback_head, pending_callback_tail,
                    processing_callbacks, processed, cb_val, invoked, log >>
    /\ RaceFrame

\* the next read or write of the queue_callback under way
QueueCallbackAccess ==
    /\ ctx.prog # << >>
    /\ LET access == Head(ctx.prog)
           full == ctx.next_tail = pending_callback_head
       IN  /\ ctx' = IF access = "next_tail"
                     THEN [ctx EXCEPT !.prog = Tail(@),
                               !.next_tail = (pending_callback_tail + 1) % MAX_PENDING_CALLBACKS]
                     ELSE IF access = "test" /\ full THEN [ctx EXCEPT !.prog = << >>]
                     ELSE IF access = "index"
                     THEN [ctx EXCEPT !.prog = Tail(@), !.idx = pending_callback_tail]
                     ELSE [ctx EXCEPT !.prog = Tail(@)]
           /\ pending_callbacks' = IF access = "entry"
                                   THEN [pending_callbacks EXCEPT ![ctx.idx] = ctx.val]
                                   ELSE pending_callbacks
           /\ pending_callback_tail' = IF access = "tail" THEN ctx.next_tail
                                       ELSE pending_callback_tail
           /\ log' = IF access = "test"
                     THEN Append(log, Ev("enqueue", pending_callback_tail, ctx.val,
                                         IF full THEN 0 ELSE 1))
                     ELSE log
    /\ UNCHANGED << pending_callback_head, processing_callbacks, processed, cb_val, invoked >>
    /\ RaceFrame

\* the game's context calls process_pending_callbacks
DrainCalled ==
    /\ ctx.at = "idle"
    /\ IF processing_callbacks
       THEN UNCHANGED << ctx, processing_callbacks, processed >>
       ELSE /\ ctx' = [ctx EXCEPT !.at = "head"]
            /\ processing_callbacks' = TRUE
            /\ processed' = 0
    /\ UNCHANGED << pending_callbacks, pending_callback_head, pending_callback_tail, cb_val,
                    invoked, log >>
    /\ RaceFrame

\* the next read or write of the drain under way: the head and the tail for
\* the loop's test, the head for the index, the entry, the head for its
\* successor, the head written, and the call of sound_callback
DrainAccess ==
    /\ ctx.at # "idle"
    /\ ctx' = IF ctx.at = "head" THEN [ctx EXCEPT !.at = "tail", !.head = pending_callback_head]
              ELSE IF ctx.at = "tail"
              THEN [ctx EXCEPT !.at = IF ctx.head # pending_callback_tail
                                         /\ processed < MAX_CALLBACKS_PER_DRAIN
                                      THEN "index" ELSE "idle"]
              ELSE IF ctx.at = "index"
              THEN [ctx EXCEPT !.at = "entry", !.i = pending_callback_head]
              ELSE IF ctx.at = "entry" THEN [ctx EXCEPT !.at = "successor"]
              ELSE IF ctx.at = "successor"
              THEN [ctx EXCEPT !.at = "advance", !.head = pending_callback_head]
              ELSE IF ctx.at = "advance" THEN [ctx EXCEPT !.at = "call"]
              ELSE [ctx EXCEPT !.at = "head"]
    /\ processing_callbacks' = IF ctx.at = "tail" /\ ctx'.at = "idle" THEN FALSE
                               ELSE processing_callbacks
    /\ cb_val' = IF ctx.at = "entry" THEN pending_callbacks[ctx.i] ELSE cb_val
    /\ pending_callback_head' = IF ctx.at = "advance"
                                THEN (ctx.head + 1) % MAX_PENDING_CALLBACKS
                                ELSE pending_callback_head
    /\ processed' = IF ctx.at = "advance" THEN processed + 1 ELSE processed
    /\ invoked' = IF ctx.at = "call" /\ sound_callback THEN Append(invoked, cb_val) ELSE invoked
    /\ UNCHANGED << pending_callbacks, pending_callback_tail, log >>
    /\ RaceFrame

NextRace ==
    \/ QueueCallbackCalled
    \/ QueueCallbackAccess
    \/ DrainCalled
    \/ DrainAccess

SpecRace == InitRace /\ [][NextRace]_vars

(***************************************************************************)
(* Producer and consumer of the callback queue in two contexts             *)
(***************************************************************************)
\* the tokens the queue held at the start
BacklogOf == IF next_handle = 1 THEN 0 ELSE next_handle - NUM_SOUND_CHANNELS - 1
BacklogTokens == [k \in 1 .. BacklogOf |-> BacklogToken(k)]

\* the tokens queue_callback took, and the ones it dropped, in call order
TokensOf(lg, taken) ==
    LET picked == SelectSeq(lg, LAMBDA ev : ev.e = "enqueue" /\ ev.b = taken)
    IN  [k \in 1 .. Len(picked) |-> picked[k].a]
Accepted == BacklogTokens \o TokensOf(log, 1)

IsPrefix(a, b) == Len(a) <= Len(b) /\ \A k \in 1 .. Len(a) : a[k] = b[k]

\* neither context is inside its function and the queue is empty
RaceQuiet ==
    /\ ctx.prog = << >> /\ ctx.at = "idle"
    /\ pending_callback_head = pending_callback_tail

\* every token delivered so far was taken by queue_callback, and the
\* tokens were delivered in the order they were taken, each once
DeliveredOnceInOrder ==
    /\ pending_callback_head \in 0 .. (MAX_PENDING_CALLBACKS - 1)
    /\ pending_callback_tail \in 0 .. (MAX_PENDING_CALLBACKS - 1)
    /\ IsPrefix(invoked, Accepted)
    /\ \A a, b \in 1 .. Len(invoked) : invoked[a] = invoked[b] => a = b
    /\ Len(log) = ctx.sent - (IF ctx.prog # << >> /\ Head(ctx.prog) \in {"next_tail", "test"}
                              THEN 1 ELSE 0)
    /\ RaceQuiet => invoked = Accepted

\* a token is dropped only at a queue that holds MAX_PENDING_CALLBACKS - 1
\* entries
DroppedAtFullQueue ==
    (Len(log') > Len(log) /\ log'[Len(log')].b = 0)
        => (pending_callback_tail - pending_callback_head) % MAX_PENDING_CALLBACKS
               = MAX_PENDING_CALLBACKS - 1

\* C31: With one context executing queue_callback and another executing
\* process_pending_callbacks, interleaved at the granularity of single reads
\* and writes of head, tail and entries, every token is either dropped at
\* enqueue time because the queue was full or delivered exactly once, in
\* enqueue order; no token is delivered twice, no delivered value differs
\* from an enqueued one, and head and tail stay within 0..31.
RaceDeliversOnceInOrder == []DeliveredOnceInOrder /\ [][DroppedAtFullQueue]_vars

\* a token was dropped at a full queue, three were taken, the tail has
\* wrapped around, and every token taken has been delivered
RaceWitness ==
    /\ RaceQuiet
    /\ Len(TokensOf(log, 0)) >= 1 /\ Len(TokensOf(log, 1)) = 3
    /\ BacklogOf = RaceBacklog
    /\ pending_callback_tail < 3
    /\ invoked = Accepted

(***************************************************************************)
(* SpecDrain: the game polls with a queue of up to 30 tokens waiting,      *)
(* with and without a callback registered, while a sound is played         *)
(***************************************************************************)
DrainBacklogs == {0, 3, 8, 9, 17, 30}

InitDrain == InitWith({1}, {PoolSize}, {SmallPass}, DrainBacklogs)

\* one sound of one sample, with token 1
PlayDrain ==
    /\ sounds = << >>
    /\ I_PicoSound_PlayRaw(1, Len(Mem[1]), PICO_SOUND_SAMPLE_FREQ, 0, 32, 0, 0, 1, 1, FALSE,
                           NULL, NULL)

NextDrain ==
    \/ PlayDrain
    \/ I_PicoSound_Update(1)
    \/ CallbackReturn
    \/ \E callback \in BOOLEAN : I_PicoSound_SetCallback(callback)

SpecDrain == InitDrain /\ [][NextDrain]_vars

(***************************************************************************)
(* One drain of the callback queue                                         *)
(***************************************************************************)
\* the entries waiting between head h and tail t
Waiting32(h, t) == (t - h + MAX_PENDING_CALLBACKS) % MAX_PENDING_CALLBACKS

\* the drain goes on from count entries processed, with the queue q up to
\* tail t: it passes the oldest entry to the callback, or, with no callback
\* registered, consumes what its budget allows, or ends
DrainGoesOn(q, t, count) ==
    LET n == Waiting32(pending_callback_head, t)
        budget == MAX_CALLBACKS_PER_DRAIN - count
        taken == IF n < budget THEN n ELSE budget
    IN  IF n > 0 /\ budget > 0 /\ sound_callback
        THEN /\ invoked' = Append(invoked, q[pending_callback_head])
             /\ pending_callback_head' = (pending_callback_head + 1) % MAX_PENDING_CALLBACKS
             /\ pc' = "callback" /\ processed' = count + 1
             /\ processing_callbacks'
        ELSE /\ invoked' = invoked
             /\ pending_callback_head'
                    = (pending_callback_head + (IF sound_callback THEN 0 ELSE taken))
                          % MAX_PENDING_CALLBACKS
             /\ pc' = "main"
             /\ ~processing_callbacks'

\* the entries that waited before the step are where they were
WaitingKept ==
    \A k \in 0 .. (Waiting32(pending_callback_head, pending_callback_tail) - 1) :
        pending_callbacks'[(pending_callback_head + k) % MAX_PENDING_CALLBACKS]
            = pending_callbacks[(pending_callback_head + k) % MAX_PENDING_CALLBACKS]

\* what a step of a drain does: the drain of an update starts at 0 after
\* the mix, the return of the callback takes it up at processed
DrainStep ==
    /\ (Call({"Update"}) /\ sound_initialized /\ ~processing_callbacks)
          => DrainGoesOn(pending_callbacks', pending_callback_tail', 0) /\ WaitingKept
    /\ Call({"Return"})
          => /\ DrainGoesOn(pending_callbacks, pending_callback_tail, processed)
             /\ pending_callbacks' = pending_callbacks
             /\ pending_callback_tail' = pending_callback_tail

\* C32: One call of process_pending_callbacks invokes the callback at most
\* 8 times, delivers tokens in exactly the order they were enqueued (FIFO),
\* and leaves any remaining entries queued in their original order for a
\* later drain; entries are consumed (head advances) even when no callback
\* is registered.
DrainBoundedFifo ==
    /\ [](processed <= MAX_CALLBACKS_PER_DRAIN)
    /\ [](pc = "callback" => processed >= 1)
    /\ [][DrainStep]_vars

\* a drain has ended after 8 invocations with entries still waiting, and
\* before it a drain without a callback had consumed entries
DrainWitness ==
    /\ log # << >> /\ log[1].e = "Return"
    /\ pc = "main"
    /\ Len(invoked) = MAX_CALLBACKS_PER_DRAIN
    /\ pending_callback_head = 2 * MAX_CALLBACKS_PER_DRAIN
    /\ pending_callback_tail # pending_callback_head
    /\ invoked[1] = BacklogToken(MAX_CALLBACKS_PER_DRAIN + 1)

(***************************************************************************)
(* SpecEnd: one sound that does not loop is played from a source with or   *)
(* without samples, and the mixer runs pass after pass; nothing is stopped *)
(* or stolen                                                               *)
(***************************************************************************)
\* the sources that decode to no sample at play time
EmptyVocs == {13}
EmptyWavs == {14, 15}

InitEnd == InitWith({1, 2}, {PoolSize}, {SmallPass, BigPass}, {0})

PlayRawEnd ==
    /\ sounds = << >>
    /\ \E m \in {1, 3, 4}, samplerate \in {11025, PICO_SOUND_SAMPLE_FREQ, FastRate} :
          I_PicoSound_PlayRaw(m, Len(Mem[m]), samplerate, 0, 32, 0, 0, 1, 7, FALSE, NULL, NULL)

PlayVocEnd ==
    /\ sounds = << >>
    /\ \E m \in {5, 6, 7, 10} \cup EmptyVocs :
          I_PicoSound_PlayVOC(m, Len(Mem[m]), 0, 0, 32, 0, 0, 1, 7, FALSE, 0, 0)

PlayWavEnd ==
    /\ sounds = << >>
    /\ \E m \in {8, 9} \cup EmptyWavs :
          I_PicoSound_PlayWAV(m, Len(Mem[m]), 0, 32, 0, 0, 1, 7, FALSE, 0, 0)

NextEnd ==
    \/ PlayRawEnd
    \/ PlayVocEnd
    \/ PlayWavEnd
    \/ I_PicoSound_Update(1)
    \/ CallbackReturn

SpecEnd == InitEnd /\ [][NextEnd]_vars

(***************************************************************************)
(* A sound that does not loop comes to its end                             *)
(***************************************************************************)
\* the voice v1 is further on in its source or in its local buffer than v
FurtherOn(v1, v) ==
    \/ v1.data > v.data
    \/ /\ v1.data = v.data
       /\ \/ v1.offset[1] > v.offset[1]
          \/ v1.offset[1] = v.offset[1] /\ v1.offset[2] > v.offset[2]

\* a mix pass ends the voice in slot i or takes it further on
PassAdvances(i) == ~voices'[i].active \/ FurtherOn(voices'[i], voices[i])

\* the step is an update that mixed a buffer
MixedOnce == Call({"Update"}) /\ sound_initialized

\* the voice in slot i plays a sound that had samples when it was played
HasSamples(i) == voices[i].buffer_size > 0

\* C33: Every non-looping voice made active by a play call is eventually
\* deactivated by repeated mix passes (given buffers keep being supplied
\* and no stop or steal occurs), for every source, including sources that
\* decode to zero samples at play time (empty VOC sound block, WAV data
\* chunk of size 0 or a single byte of 16-bit data, one-byte ADPCM data): a
\* source that yields no samples is treated as finished.  Every mix pass
\* ends such a voice or takes it further on in its source; a pass that
\* leaves it where it was leaves it active for good.
EveryVoiceEnds ==
    [][MixedOnce => \A i \in Slots : (voices[i].active /\ ~voices[i].looping) => PassAdvances(i)]_vars

\* the same for the sounds that had samples when they were played
VoiceWithSamplesEnds ==
    [][MixedOnce => \A i \in Slots :
                       (voices[i].active /\ ~voices[i].looping /\ HasSamples(i))
                           => PassAdvances(i)]_vars

\* a mix pass has left the voice of a sound without samples active
EmptySoundStaysActive ==
    /\ log # << >> /\ log[1].e = "Update"
    /\ sounds # << >> /\ sounds[1].fate = "playing"
    /\ voices[0].active /\ voices[0].buffer_size = 0

(***************************************************************************)
(* A paused song stands still                                              *)
(***************************************************************************)
\* the sequencer's state: the clock, the tracks, the tempo, the channels
\* and the voice table
Sequencer == << current_time_us, track_iters, track_next_event_us, running_tracks,
                us_per_beat, midi_channels, opl_voices >>

\* a call of MusicGenerator while the music is paused
PausedGeneratorIdles ==
    (MusicCall("MusicGenerator") /\ music_paused)
        => /\ music_buffer' = [i \in 1 .. max_sample_count |-> << 0, 0 >>]
           /\ UNCHANGED Sequencer
           /\ music_paused' /\ music_playing' = music_playing

\* pause and resume leave the sequencer as it is
PauseKeepsSequencer == (MusicCall("Pause") \/ MusicCall("Resume")) => UNCHANGED Sequencer

\* the first call of MusicGenerator on a song that plays starts at the clock
\* it finds
GeneratorTakesUpClock ==
    (MusicCall("MusicGenerator") /\ music_playing /\ ~music_paused /\ Clocked(music_log') # << >>)
        => Clocked(music_log')[1].time = current_time_us

\* C34: While music is paused, MusicGenerator writes an all-zero buffer and
\* leaves the virtual clock, every track's position and next-event time,
\* running_tracks, the tempo, the channel state and the OPL voice table
\* unchanged; after I_Music_Resume the song continues from the same virtual
\* time.
PausedSongStandsStill ==
    [][PausedGeneratorIdles /\ PauseKeepsSequencer /\ GeneratorTakesUpClock]_vars

\* the generator was called on a song paused in its course, with a note
\* struck
PausedSongWitness ==
    /\ music_log = << Ev("MusicGenerator", 0 - 1, 0, 0) >>
    /\ music_playing /\ music_paused
    /\ current_time_us > 0
    /\ \E i \in OplVoices : opl_voices[i].active
    /\ \E t \in 0 .. (num_tracks - 1) : track_iters[t] # NULL /\ track_iters[t] > 0

(***************************************************************************)
(* Token 0 means no callback                                               *)
(***************************************************************************)
\* the entries that wait in the callback queue
WaitingEntries ==
    { pending_callbacks[(pending_callback_head + k) % MAX_PENDING_CALLBACKS] :
        k \in 0 .. (Waiting32(pending_callback_head, pending_callback_tail) - 1) }

\* no entry was made for token 0 and the callback was not called with it
NoZeroToken ==
    /\ 0 \notin WaitingEntries
    /\ \A i \in 1 .. Len(invoked) : invoked[i] # 0
    /\ \A i \in 1 .. Len(log) : log[i].e \in {"enqueue", "invoke"} => log[i].a # 0
    /\ \A k \in 1 .. Len(sounds) : sounds[k].token = 0 => ~sounds[k].stored

\* the end of a sound played with token 0 leaves the queue as it was
ZeroTokenEndsSilently ==
    \A k \in 1 .. Len(sounds) :
        (sounds[k].token = 0 /\ sounds[k].fate = "playing" /\ sounds'[k].fate # "playing"
            /\ \A j \in 1 .. Len(sounds) :
                  (j # k /\ sounds[j].fate = "playing") => sounds'[j].fate = "playing")
            => /\ pending_callback_tail' = pending_callback_tail
               /\ pending_callbacks' = pending_callbacks

\* C35: A sound played with callback token 0 never produces a
\* callback-queue entry: neither its natural completion in the mixer nor
\* its eviction by a later play enqueues anything, so the registered
\* callback is never invoked with token 0.
ZeroTokenNeverQueued == []NoZeroToken /\ [][ZeroTokenEndsSilently]_vars

\* the sound played with token 0 was evicted by a later play, and the
\* callback has been called for another sound
ZeroTokenWitness ==
    /\ \E k \in 1 .. Len(sounds) : sounds[k].token = 0 /\ sounds[k].fate = "steal"
    /\ invoked # << >>

\* the sound played with token 0 has played to its end
ZeroTokenFinished ==
    \E k \in 1 .. Len(sounds) : sounds[k].token = 0 /\ sounds[k].fate = "finish"

(***************************************************************************)
(* The callback queue holds at most 31 tokens                              *)
(***************************************************************************)
\* how many entries of the kinds es the log lg reports
Reported(lg, es) == Cardinality({ i \in 1 .. Len(lg) : lg[i].e \in es })

\* head and tail are indices of the ring
QueueIndicesInRange ==
    /\ pending_callback_head \in 0 .. (MAX_PENDING_CALLBACKS - 1)
    /\ pending_callback_tail \in 0 .. (MAX_PENDING_CALLBACKS - 1)
    /\ Waiting32(pending_callback_head, pending_callback_tail) <= MAX_PENDING_CALLBACKS - 1

\* the entries waiting after an operation are the ones that waited, with
\* the tokens it stored and without the ones it took out: none is lost to
\* a tail that catches up with the head
QueueCountKept ==
    LET stored == Cardinality({ i \in 1 .. Len(log') : log'[i].e = "enqueue" /\ log'[i].b = 1 })
        taken == Reported(log', {"invoke", "consume"})
        waited == Waiting32(pending_callback_head, pending_callback_tail)
    IN  /\ Waiting32(pending_callback_head', pending_callback_tail') = waited + stored - taken
        /\ waited + stored <= MAX_PENDING_CALLBACKS - 1

\* C36: In every reachable state the number of pending callback entries,
\* (tail - head) mod 32, is between 0 and 31: head and tail stay within
\* 0..31, head = tail means empty, and the queue never holds more than 31
\* tokens although the array has 32 slots.
QueueHoldsAtMost31 == []QueueIndicesInRange /\ [][QueueCountKept]_vars

\* the queue holds 31 tokens, and the token of a sound that ended then was
\* not stored
QueueFullWitness ==
    /\ Waiting32(pending_callback_head, pending_callback_tail) = MAX_PENDING_CALLBACKS - 1
    /\ \E k \in 1 .. Len(sounds) :
          sounds[k].token # 0 /\ sounds[k].fate \in {"finish", "steal"} /\ ~sounds[k].stored

(***************************************************************************)
(* SpecVolume: the master volume is set to values in and out of range      *)
(* while two sounds are played and mixed                                   *)
(***************************************************************************)
VolumeInputs == { 0 - 1, 0, 128, 255, 256 }

InitVolume == InitWith({1, 2}, {PoolSize}, {SmallPass}, {0})

NextVolume ==
    \/ PlayLoudRaw
    \/ PlayLoudWav
    \/ \E volume \in VolumeInputs : I_PicoSound_SetVolume(volume)
    \/ I_PicoSound_Update(1)
    \/ CallbackReturn

SpecVolume == InitVolume /\ [][NextVolume]_vars

(***************************************************************************)
(* The master volume is stored and not applied                             *)
(***************************************************************************)
\* what I_PicoSound_SetVolume(volume) has done when it returns
VolumeStored ==
    Call({"SetVolume"})
        => /\ \/ log'[1].a < 0 /\ I_PicoSound_GetVolume' = 0
              \/ log'[1].a > 255 /\ I_PicoSound_GetVolume' = 255
              \/ log'[1].a \in 0 .. 255 /\ I_PicoSound_GetVolume' = log'[1].a
           /\ voices' = voices
           /\ samples' = samples

\* the output of a mix pass of one sample over silence is made of the
\* voices' samples and their own gains, whatever the master volume is
OutputWithoutMaster ==
    MixedOnce => \A side \in {0, 1} : samples'[side] = LimitedInTurn(0, 0, side)

\* C37: I_PicoSound_SetVolume only stores the master volume clamped to
\* 0..255 (returned by I_PicoSound_GetVolume); it changes no voice field,
\* and the samples produced by later mix passes are identical for every
\* master-volume value.
MasterVolumeOnlyStored == [][VolumeStored /\ OutputWithoutMaster]_vars

\* with the master volume at 0 a mix pass has put a sound into the buffer
MasterVolumeWitness ==
    /\ log # << >> /\ log[1].e = "Update"
    /\ master_volume = 0
    /\ samples[0] # 0
    /\ \E i \in 1 .. Len(log) : log[i].e = "read"

(***************************************************************************)
(* SpecPan: a sound is played and placed around the listener, at angles    *)
(* on every side and at distances from nearest to farthest                 *)
(***************************************************************************)
PanAngles == { 0, 1, 32, 64, 96, 127, 128, 129, 160, 192, 224, 255 }
PanDistances == { 0, 1, 100, 254, 255 }

InitPan == InitWith({1, 2}, {PoolSize}, {SmallPass}, {0})

PlayPan ==
    /\ sounds = << >>
    /\ I_PicoSound_PlayRaw(2, Len(Mem[2]), PICO_SOUND_SAMPLE_FREQ, 0, 32, 0, 0, 1, 7, FALSE,
                           NULL, NULL)

NextPan ==
    \/ PlayPan
    \/ \E h \in HeldHandles, angle \in PanAngles, distance \in PanDistances :
          I_PicoSound_Pan3D(h, angle, distance)
    \/ I_PicoSound_Update(1)
    \/ CallbackReturn

SpecPan == InitPan /\ [][NextPan]_vars

(***************************************************************************)
(* The volumes Pan3D stores                                                *)
(***************************************************************************)
\* the voice of handle h has both volumes between 0 and 255 - distance
\* after the step
WithinDistance(h, distance) ==
    LET slot == handle_to_voice(voices, h)
    IN  /\ voices'[slot].left_vol \in 0 .. (255 - distance)
        /\ voices'[slot].right_vol \in 0 .. (255 - distance)

\* the step is Pan3D(h, angle, distance) for a handle of a voice that plays
PannedAt(h, angle, distance) ==
    /\ handle_to_voice(voices, h) >= 0
    /\ Call({"Pan3D"}) /\ log'[1].a = h
    /\ I_PicoSound_Pan3D(h, angle, distance)

\* C38: For every valid handle, every angle in 0..255 and every distance in
\* 0..255, I_PicoSound_Pan3D stores left and right volumes that both lie
\* between 0 and 255 - distance; in particular no channel is ever louder
\* than the distance-attenuated volume, and at angle 128 neither channel
\* wraps around to a large value.
Pan3DWithinDistance ==
    [][\A h \in HeldHandles, angle \in PanAngles, distance \in PanDistances :
          PannedAt(h, angle, distance) => WithinDistance(h, distance)]_vars

\* the same for every angle but 128
Pan3DWithinDistanceBut128 ==
    [][\A h \in HeldHandles, angle \in PanAngles \ {128}, distance \in PanDistances :
          PannedAt(h, angle, distance) => WithinDistance(h, distance)]_vars

(***************************************************************************)
(* running_tracks counts the live tracks                                   *)
(***************************************************************************)
\* the tracks whose iterator is live
LiveTracks == { t \in 0 .. (num_tracks - 1) : track_iters[t] # NULL }

\* C39: Whenever a song is loaded, running_tracks equals the number of
\* tracks whose iterator is still live (non-NULL entry of track_iters): it
\* is decremented exactly when a track is retired, and this equality still
\* holds after a loop restart.
RunningTracksCountLive ==
    (current_midi # NULL /\ track_iters # NullArray)
        => running_tracks = Cardinality(LiveTracks)

\* the same while the song has not restarted
RunningTracksCountLiveOnce ==
    (current_midi # NULL /\ track_iters # NullArray /\ (music_playing => ~music_looping))
        => running_tracks = Cardinality(LiveTracks)

\* running_tracks goes down by the tracks retired in a call of
\* MusicGenerator that does not restart the song
RetiredTracksCounted ==
    (MusicCall("MusicGenerator") /\ Reported(music_log', {"restart"}) = 0)
        => running_tracks' = running_tracks - Reported(music_log', {"retire"})

RunningTracksDecremented == [][RetiredTracksCounted]_vars

(***************************************************************************)
(* SpecAdpcm: the decoder state of one ADPCM voice, fed any nibbles        *)
(***************************************************************************)
\* the second revision's step index goes up by at most 8 a nibble from 0, so
\* the 12th nibble is the first that can take it past 88
MaxNibbles == 12
\* the reference bytes the first revision's decoder starts from
FirstBytes == {0, 128, 255}
\* every nibble for the first revision's 1,024 decoder states; for the second
\* revision the smallest and the largest step of either sign
Nibbles(r) == IF r = 1 THEN 0 .. 15 ELSE {0, 7, 8, 15}

\* where in block m the ADPCM sound starts: at one of the reference bytes,
\* and for the second revision, which reads none, at the head
AdpcmCursors(r, m) ==
    IF r = 1 THEN { p \in 0 .. (Len(Mem[m]) - 2) : ByteAt(m, p) \in FirstBytes }
    ELSE {0}

\* the sample description of the ADPCM sound that starts at p of block m
AdpcmSource(m, p) ==
    [sample_data |-> p, sample_length |-> Len(Mem[m]) - p, is_16bit |-> FALSE,
     is_signed |-> FALSE, codec |-> 4]

\* one call of the revision's nibble decoder on the voice's state
AdpcmNibble(r, v, nibble) ==
    IF r = 1
    THEN LET d == decode_creative_adpcm_nibble(nibble, v.adpcm_pred, v.adpcm_step)
         IN  [v EXCEPT !.adpcm_pred = d[1], !.adpcm_step = d[2]]
    ELSE LET d == decode_adpcm_nibble(nibble, v.adpcm_pred, v.adpcm_index)
         IN  [v EXCEPT !.adpcm_pred = d[1], !.adpcm_index = d[2]]

\* the nibbles decoded since the play call or the last loop rewind
NibblesDecoded == IF log = << >> THEN 0 ELSE log[1].ch

\* the step index the second revision's decoder is called with
StepIndex(r, v) == IF r = 2 THEN v.adpcm_index ELSE 0

AdpcmFrame ==
    UNCHANGED << Control, next_handle, pending_callbacks, pending_callback_tail, samples,
                 occupant, emitted, sounds >>

\* a play call loads a looping ADPCM sound that starts at p of block m
AdpcmPlay(m, p) ==
    /\ log = << >>
    /\ voices' = [voices EXCEPT ![0] = Loaded(rev, @, m, AdpcmSource(m, p), p, NULL, TRUE)]
    /\ log' = << Ev("play", 0, 0, 0) >>
    /\ AdpcmFrame

\* the loop rewind of decompress_buffer
AdpcmRewind ==
    /\ log # << >>
    /\ log[1].e = "nibble"
    /\ voices' = [voices EXCEPT ![0] = AdpcmRewound(rev, @)]
    /\ log' = << Ev("rewind", 0, 0, 0) >>
    /\ AdpcmFrame

\* the first revision reads the reference byte from the source
AdpcmFirst ==
    /\ log # << >>
    /\ rev = 1
    /\ voices[0].adpcm_step < 0 /\ voices[0].data < voices[0].data_end
    /\ voices' = [voices EXCEPT ![0] = AdpcmFirstByte(@)]
    /\ log' = << Ev("first", NibblesDecoded, ByteAt(voices[0].mem, voices[0].data), 0) >>
    /\ AdpcmFrame

AdpcmDecode(nibble) ==
    /\ log # << >>
    /\ rev = 1 => voices[0].adpcm_step >= 0
    /\ NibblesDecoded < MaxNibbles
    /\ voices' = [voices EXCEPT ![0] = AdpcmNibble(rev, @, nibble)]
    /\ log' = << Ev("nibble", NibblesDecoded + 1, nibble, StepIndex(rev, voices[0])) >>
    /\ AdpcmFrame

NextAdpcm ==
    \* block 4 holds every byte value
    \/ \E p \in AdpcmCursors(rev, 4) : AdpcmPlay(4, p)
    \/ AdpcmRewind
    \/ AdpcmFirst
    \/ \E nibble \in Nibbles(rev) : AdpcmDecode(nibble)

InitAdpcm == InitWith({1, 2}, {PoolSize}, {SmallPass}, {0})

SpecAdpcm == InitAdpcm /\ [][NextAdpcm]_vars

\* the decoder state of voice v is in the revision's range
AdpcmInRange(r, v) ==
    IF r = 1
    THEN v.adpcm_step \in {0, 16, 32, 48} /\ v.adpcm_pred \in 0 .. 255
    ELSE v.adpcm_index \in 0 .. 88 /\ v.adpcm_pred \in (0 - 32768) .. 32767

\* the state is in range once the decoder has been given a nibble
DecodedInRange ==
    (log # << >> /\ log[1].e \in {"first", "nibble"}) => AdpcmInRange(rev, voices[0])

\* the first revision's table index needs no clamping
TableIndexInRange ==
    (rev = 1 /\ log' # << >> /\ log'[1].e = "nibble")
        => (log'[1].a + voices[0].adpcm_step) \in 0 .. 63

\* C40: After decoding any sequence of nibbles from the state a play call
\* or a loop rewind sets, the ADPCM decoder state is in range: in the first
\* revision the step size is one of 0, 16, 32, 48, the table index is within
\* 0..63 and the reference sample within 0..255; in the second revision the
\* step index is within 0..88 and the predictor within -32768..32767.
AdpcmStateInRange == []DecodedInRange /\ [][TableIndexInRange]_vars

\* the first revision's reference sample was held at 255 with the largest step
AdpcmWitness ==
    /\ rev = 1
    /\ log # << >> /\ log[1].e = "nibble" /\ log[1].ch = 4 /\ log[1].a = 7
    /\ voices[0].adpcm_pred = 255
    /\ voices[0].adpcm_step = 48

\* the second revision's decoder was called at step index 88 with a nibble
\* that adds 8 to it and with a predictor its step takes past 32767: both
\* were held at their ends
AdpcmSaturated ==
    /\ rev = 2
    /\ log # << >> /\ log[1].e = "nibble"
    /\ log[1].b = 88 /\ log[1].a = 7
    /\ voices[0].adpcm_pred = 32767
    /\ voices[0].adpcm_index = 88

====
